---- MODULE Spec2Model ----
(***************************************************************************)
(* Multi-agent orchestration of multi_agent.py: the mode selector, the     *)
(* per-phase thread pools, the agent executor _run_agent, the response     *)
(* parsers and the consistency step of run_multi_agent_v2.                 *)
(*                                                                         *)
(* Numbers that the source holds as floats in [0,1] (system_confidence,    *)
(* KnowledgeOutput.confidence) are held in hundredths: 0.75 is 75.         *)
(* A completion response is one of: None, a string, or a raised Exception. *)
(* A non-empty response string is held as the sequence of its tokens (the  *)
(* Knowledge text as its JSON span and the tokens of its label lines); the *)
(* regular expressions of the parsers are read over that sequence, and the *)
(* per-line cleaning over the characters of the rendered line.             *)
(*                                                                         *)
(* Spec is one call of run_multi_agent_v2; ParseSpec is one parser applied *)
(* to one text.                                                            *)
(***************************************************************************)
EXTENDS Integers, Sequences, FiniteSets, TLC

VARIABLES
    severity,           \* argument severity of run_multi_agent_v2
    system_confidence,  \* argument system_confidence, in hundredths
    pc,                 \* position of the orchestrating thread
    mode_used,          \* result.mode_used
    status,             \* per role: state of its _run_agent task
    calls,              \* per role: number of llm_callable invocations
    raw,                \* per role: what llm_callable returned or raised
    fut,                \* per role: the tuple its _run_agent returned
    gathered,           \* roles whose f.result() the orchestrator has taken
    result,             \* result.root_cause .. result.consistency
    agent_times,        \* keys of result.agent_times
    errors,             \* result.errors
    agent_context,      \* Phase-2 digest handed to build_actions_prompt
    parse_role,         \* the role whose parser is applied on its own
    parse_text,         \* the text it is applied to
    parse_result,       \* what it returned or raised
    san_call,           \* the method of src/sanitizer.py that was called
    backend_type,       \* SanitizationPipeline: backend_type argument
    has_callable,       \* SanitizationPipeline: an ollama_callable was given
    san_pc,             \* position inside SanitizationPipeline.sanitize
    san_text,           \* text argument of SanitizationPipeline.sanitize
    regex_out,          \* what RegexSanitizer.sanitize returned
    llm_text,           \* text argument of LLMSanitizer.sanitize
    chunk_start,        \* _chunk_text: start
    chunks,             \* _chunk_text: chunks, as (start, end)
    chunk_i,            \* LLMSanitizer.sanitize: chunks taken by the for loop
    elapsed_total,      \* seconds since pipeline_start
    sanitized_chunks,   \* LLMSanitizer.sanitize: sanitized_chunks
    all_findings,       \* LLMSanitizer.sanitize: all_findings
    timeout_flags,      \* the timeout flag of every _sanitize_chunk call so far
    llm_out,            \* what LLMSanitizer.sanitize returned or raised
    san_result,         \* the SanitizationResult returned
    groq_pc,            \* position inside _call_groq_api
    groq_attempt,       \* _call_groq_api: attempt
    groq_log,           \* what each requests.post did
    groq_clock,         \* seconds since _call_groq_api was entered
    groq_result         \* what _call_groq_api returned

orch_vars == <<severity, system_confidence, pc, mode_used, status, calls, raw, fut,
               gathered, result, agent_times, errors, agent_context>>

parse_vars == <<parse_role, parse_text, parse_result>>

san_vars == <<san_call, backend_type, has_callable, san_pc, san_text, regex_out, llm_text,
              chunk_start, chunks, chunk_i, elapsed_total, sanitized_chunks,
              all_findings, timeout_flags, llm_out, san_result>>

groq_vars == <<groq_pc, groq_attempt, groq_log, groq_clock, groq_result>>

vars == <<severity, system_confidence, pc, mode_used, status, calls, raw, fut,
          gathered, result, agent_times, errors, agent_context,
          parse_role, parse_text, parse_result,
          san_call, backend_type, has_callable, san_pc, san_text, regex_out, llm_text,
          chunk_start, chunks, chunk_i, elapsed_total, sanitized_chunks,
          all_findings, timeout_flags, llm_out, san_result,
          groq_pc, groq_attempt, groq_log, groq_clock, groq_result>>

-----------------------------------------------------------------------------
(* Roles: the keys of the futures dict and the agent names given to        *)
(* _run_agent.                                                             *)

Roles == {"root_cause", "impact", "actions", "knowledge", "consistency"}

AgentName(r) ==
    CASE r = "root_cause"  -> "RootCause"
      [] r = "impact"      -> "Impact"
      [] r = "actions"     -> "Actions"
      [] r = "knowledge"   -> "Knowledge"
      [] r = "consistency" -> "Consistency"

\* Insertion order of the futures dicts (dicts iterate in insertion order).
Phase1Order == <<"root_cause", "impact", "knowledge">>
ParallelOrder == <<"root_cause", "impact", "actions", "knowledge">>

-----------------------------------------------------------------------------
(* Python values.                                                          *)

\* Optional[str] error of the _run_agent tuple.
None == [some |-> FALSE, msg |-> ""]
Some(m) == [some |-> TRUE, msg |-> m]

\* Truth value of an Optional[str]: None and "" are both falsy.
Truthy(e) == e.some /\ e.msg # ""

\* A decoded JSON value; t is its Python type, "absent" a missing key.
JVal(t, s, n, name, role, title) ==
    [t |-> t, s |-> s, n |-> n, name |-> name, role |-> role, title |-> title]
JAbsent == JVal("absent", "", 0, "", "", "")
JNull == JVal("null", "", 0, "", "", "")
JStr(s) == JVal("str", s, 0, "", "", "")
JNum(n) == JVal("num", "", n, "", "", "")
JList(len) == JVal("list", "", len, "", "", "")
JDict(name, role, title) == JVal("dict", "", 0, name, role, title)

\* bool(j) as Python evaluates it in an if.
JTruthy(j) ==
    CASE j.t = "null" -> FALSE
      [] j.t = "str"  -> j.s # ""
      [] j.t = "num"  -> j.n # 0
      [] j.t = "list" -> j.n > 0
      [] j.t = "dict" -> j.name # "" \/ j.role # "" \/ j.title # ""
      [] OTHER        -> FALSE

\* str(j) as an f-string renders it.
JRender(j) ==
    CASE j.t = "str"  -> j.s
      [] j.t = "num"  -> ToString(j.n)
      [] j.t = "null" -> "None"
      [] j.t = "list" -> "[..]"
      [] OTHER        -> "{..}"

\* data.get(key, default)
JGet(data, key, default) == IF data[key].t = "absent" THEN default ELSE data[key]

RECURSIVE Join(_, _)
Join(sep, seq) ==
    IF seq = <<>> THEN ""
    ELSE IF Len(seq) = 1 THEN seq[1]
    ELSE seq[1] \o sep \o Join(sep, Tail(seq))

-----------------------------------------------------------------------------
(* Output schemas and their zero values (dataclass defaults).              *)

RootCauseOutput ==
    [trigger |-> "", causal_chain |-> <<>>, confidence |-> 0,
     reasoning |-> "", identified_system |-> ""]

\* Variant: financial_impact defaults to the empty string.
ImpactOutput_Blank ==
    [affected_systems |-> <<>>, user_impact |-> "", estimated_duration |-> "",
     severity_justification |-> "", financial_impact |-> "",
     primary_system |-> ""]

ImpactOutput ==
    [affected_systems |-> <<>>, user_impact |-> "", estimated_duration |-> "",
     severity_justification |-> "", financial_impact |-> "Unknown",
     primary_system |-> ""]

ActionsOutput ==
    [immediate |-> <<>>, short_term |-> <<>>, preventive |-> <<>>,
     rollback_plan |-> "", target_system |-> ""]

KnowledgeOutput ==
    [suggested_system |-> JStr(""), confidence |-> 0,
     primary_contact |-> JDict("", "", ""), backup_contacts |-> JList(0),
     best_runbook |-> JDict("", "", ""), alternative_runbooks |-> JList(0),
     similar_incidents |-> JList(0), financial_context |-> JDict("", "", ""),
     reasoning |-> JStr(""), kb_sources_used |-> JNum(0)]

ConsistencyOutput ==
    [factual_conflicts |-> <<>>, interpretation_conflicts |-> <<>>,
     agreements |-> <<>>, confidence |-> 0, quality_assessment |-> "",
     recommendation |-> ""]

MultiAgentResult ==
    [root_cause |-> RootCauseOutput, impact |-> ImpactOutput,
     actions |-> ActionsOutput, knowledge |-> KnowledgeOutput,
     consistency |-> ConsistencyOutput]

ZeroOutput(r) == MultiAgentResult[r]

-----------------------------------------------------------------------------
(* Completion responses.                                                   *)

RawNone == [kind |-> "none"]
RawEmpty == [kind |-> "str", empty |-> TRUE]
RawText(body) == [kind |-> "str", empty |-> FALSE, body |-> body]
RawRaise(msg) == [kind |-> "raise", msg |-> msg]

\* "not raw" for a returned value
Falsy(response) == response.kind = "none" \/ response.empty

\* Result of applying a parser: it returns an output or raises.
Ok(out) == [raised |-> FALSE, msg |-> "", out |-> out]
Raised(msg) == [raised |-> TRUE, msg |-> msg]

-----------------------------------------------------------------------------
(* Characters and strings. A string is taken apart with Head, Tail, SubSeq  *)
(* and Len, one character at a time, as the re module scans it.             *)

Min(a, b) == IF a < b THEN a ELSE b

Take(seq, n) == SubSeq(seq, 1, Min(n, Len(seq)))

Digits == {"0", "1", "2", "3", "4", "5", "6", "7", "8", "9"}

DigitVal(c) ==
    CASE c = "0" -> 0 [] c = "1" -> 1 [] c = "2" -> 2 [] c = "3" -> 3
      [] c = "4" -> 4 [] c = "5" -> 5 [] c = "6" -> 6 [] c = "7" -> 7
      [] c = "8" -> 8 [] c = "9" -> 9

UpperLetters == {"A", "B", "C", "D", "E", "F", "G", "H", "I", "J", "K", "L", "M",
                 "N", "O", "P", "Q", "R", "S", "T", "U", "V", "W", "X", "Y", "Z"}

LowerLetters == {"a", "b", "c", "d", "e", "f", "g", "h", "i", "j", "k", "l", "m",
                 "n", "o", "p", "q", "r", "s", "t", "u", "v", "w", "x", "y", "z"}

\* [A-Z] under re.IGNORECASE
IsLetter(c) == c \in UpperLetters \/ c \in LowerLetters

UpperChar(c) ==
    CASE c = "a" -> "A" [] c = "b" -> "B" [] c = "c" -> "C" [] c = "d" -> "D"
      [] c = "e" -> "E" [] c = "f" -> "F" [] c = "g" -> "G" [] c = "h" -> "H"
      [] c = "i" -> "I" [] c = "j" -> "J" [] c = "k" -> "K" [] c = "l" -> "L"
      [] c = "m" -> "M" [] c = "n" -> "N" [] c = "o" -> "O" [] c = "p" -> "P"
      [] c = "q" -> "Q" [] c = "r" -> "R" [] c = "s" -> "S" [] c = "t" -> "T"
      [] c = "u" -> "U" [] c = "v" -> "V" [] c = "w" -> "W" [] c = "x" -> "X"
      [] c = "y" -> "Y" [] c = "z" -> "Z" [] OTHER -> c

\* str.upper()
RECURSIVE Upper(_)
Upper(s) == IF s = "" THEN "" ELSE UpperChar(Head(s)) \o Upper(Tail(s))

\* s[i], 1-based
CharAt(s, i) == SubSeq(s, i, i)

StartsWith(s, p) == Len(s) >= Len(p) /\ SubSeq(s, 1, Len(p)) = p

EndsWith(s, p) == Len(s) >= Len(p) /\ SubSeq(s, Len(s) - Len(p) + 1, Len(s)) = p

\* s.find(sub) + 1 at or after position i: 0 when sub does not occur
RECURSIVE IndexFrom(_, _, _)
IndexFrom(s, sub, i) ==
    IF i + Len(sub) - 1 > Len(s) THEN 0
    ELSE IF SubSeq(s, i, i + Len(sub) - 1) = sub THEN i
    ELSE IndexFrom(s, sub, i + 1)

\* sub in s
Contains(s, sub) == IndexFrom(s, sub, 1) > 0

\* re.search(a + ".*" + b, s) on a one-line s
ContainsInOrder(s, a, b) ==
    LET i == IndexFrom(s, a, 1)
    IN  i > 0 /\ IndexFrom(s, b, i + Len(a)) > 0

\* the longest prefix of s matching \d+ ("" when s starts with no digit)
RECURSIVE LeadingDigits(_)
LeadingDigits(s) ==
    IF s = "" \/ Head(s) \notin Digits THEN ""
    ELSE Head(s) \o LeadingDigits(Tail(s))

\* int(d) of a digit string d
RECURSIVE ToInt(_, _)
ToInt(d, acc) == IF d = "" THEN acc ELSE ToInt(Tail(d), 10 * acc + DigitVal(Head(d)))

\* s.strip() of a one-line string: blanks at both ends removed
RECURSIVE LStrip(_)
LStrip(s) == IF s # "" /\ Head(s) = " " THEN LStrip(Tail(s)) ELSE s

RECURSIVE RStrip(_)
RStrip(s) ==
    IF s # "" /\ CharAt(s, Len(s)) = " " THEN RStrip(SubSeq(s, 1, Len(s) - 1)) ELSE s

Strip(s) == RStrip(LStrip(s))

\* s.lstrip(chars)
RECURSIVE LStripChars(_, _)
LStripChars(s, chars) ==
    IF s # "" /\ Head(s) \in chars THEN LStripChars(Tail(s), chars) ELSE s

-----------------------------------------------------------------------------
(* Response texts. A text is the sequence of its tokens: a token is a run   *)
(* of characters holding no line break and no label, colon, comma, arrow or *)
(* bold marker other than as the whole token; NL is a line break. The       *)
(* string a token sequence stands for is Render of it. Every label of the   *)
(* prompts occurs in a text as a whole token, in either case.               *)

NL == "\n"

\* Tokens written without a blank before them, and the bold marker, which is
\* written without a blank on either side.
Bold == "**"
Colon == ":"
Comma == ","

RECURSIVE Render(_)
Render(t) ==
    IF t = <<>> THEN ""
    ELSE IF Len(t) = 1 THEN t[1]
    ELSE LET a == t[1]
             b == t[2]
             glue == a = NL \/ b = NL \/ a = Bold \/ b = Bold \/ b = Colon \/ b = Comma
         IN  a \o (IF glue THEN "" ELSE " ") \o Render(Tail(t))

\* text.strip() on tokens: line breaks at both ends removed
RECURSIVE StripNL(_)
StripNL(t) ==
    IF t # <<>> /\ Head(t) = NL THEN StripNL(Tail(t))
    ELSE IF t # <<>> /\ t[Len(t)] = NL THEN StripNL(SubSeq(t, 1, Len(t) - 1))
    ELSE t

\* text.split(sep) on tokens, for a separator in seps
RECURSIVE Split(_, _)
Split(t, seps) ==
    IF \A i \in 1..Len(t) : t[i] \notin seps THEN <<t>>
    ELSE LET i == CHOOSE k \in 1..Len(t) :
                      t[k] \in seps /\ \A m \in 1..(k - 1) : t[m] \notin seps
         IN  <<SubSeq(t, 1, i - 1)>> \o Split(SubSeq(t, i + 1, Len(t)), seps)

\* \s* from position i: the first position holding no line break
RECURSIVE SkipWs(_, _)
SkipWs(t, i) == IF i <= Len(t) /\ t[i] = NL THEN SkipWs(t, i + 1) ELSE i

\* .+ or [^\n]+ from position j: the last position of j's line
RECURSIVE LineEnd(_, _)
LineEnd(t, j) == IF j < Len(t) /\ t[j + 1] # NL THEN LineEnd(t, j + 1) ELSE j

\* "LABEL:" under re.IGNORECASE ends at position i + 1
LabelColonAt(t, i, label) ==
    /\ i < Len(t)
    /\ EndsWith(Upper(t[i]), label)
    /\ t[i + 1] = Colon

\* Positions in t, in order, that satisfy P
Positions(t, P(_)) == SelectSeq([i \in 1..Len(t) |-> i], P)

\* A regex result: matched, and the tokens of group(1)
NoMatch == [matched |-> FALSE, cap |-> <<>>]
Match(cap) == [matched |-> TRUE, cap |-> cap]

\* re.search(LABEL + r':\s*(.+)', text, re.IGNORECASE), the same with [^\n]+
SearchLine(t, label) ==
    LET occ == Positions(t, LAMBDA i : LabelColonAt(t, i, label)
                                        /\ SkipWs(t, i + 2) <= Len(t))
    IN  IF occ = <<>> THEN NoMatch
        ELSE LET j == SkipWs(t, occ[1] + 2)
             IN  Match(SubSeq(t, j, LineEnd(t, j)))

\* The first position k >= from where Stop(k) holds, Len(t) + 1 when none:
\* where a lazy group followed by a lookahead ends.
LazyEnd(t, from, Stop(_)) ==
    IF \E k \in from..Len(t) : Stop(k)
    THEN CHOOSE k \in from..Len(t) : Stop(k) /\ \A m \in from..(k - 1) : ~Stop(m)
    ELSE Len(t) + 1

-----------------------------------------------------------------------------
(* Response parsers.                                                       *)

\* [A-Z]+ under re.IGNORECASE matches the whole token
RECURSIVE IsAlpha(_)
IsAlpha(s) == s # "" /\ IsLetter(Head(s)) /\ (Len(s) = 1 \/ IsAlpha(Tail(s)))

\* The separators of re.split(r'\s*(?:→|->|=>)\s*', raw)
Arrows == {"->", "=>"}

SelectNonEmpty(seq) == SelectSeq(seq, LAMBDA p : p # "")

RenderAll(parts) == [i \in 1..Len(parts) |-> Render(parts[i])]

\* re.search(r'CONFIDENCE:\s*(\d+)', text, re.IGNORECASE): group(1), "" when
\* no "CONFIDENCE:" of the text is followed by a digit
SearchDigits(t, label) ==
    LET occ == Positions(t, LAMBDA i :
                   /\ LabelColonAt(t, i, label)
                   /\ SkipWs(t, i + 2) <= Len(t)
                   /\ LeadingDigits(t[SkipWs(t, i + 2)]) # "")
    IN  IF occ = <<>> THEN "" ELSE LeadingDigits(t[SkipWs(t, occ[1] + 2)])

\* re.search(r'REASONING:\s*(.*?)(?=\n[A-Z]+:|$)', text, IGNORECASE | DOTALL)
SearchReasoning(t) ==
    LET occ == Positions(t, LAMBDA i : LabelColonAt(t, i, "REASONING"))
    IN  IF occ = <<>> THEN NoMatch
        ELSE LET j == SkipWs(t, occ[1] + 2)
                 k == LazyEnd(t, j, LAMBDA p : /\ t[p] = NL
                                               /\ p + 2 <= Len(t)
                                               /\ IsAlpha(t[p + 1])
                                               /\ t[p + 2] = Colon)
             IN  Match(SubSeq(t, j, k - 1))

\* Variant: the parsed number is stored as it is.
ClampPercent_Identity(n) == n

\* min(int(m.group(1)), 100)
ClampPercent(n) == Min(n, 100)

parse_root_cause(text) ==
    IF text.empty THEN Ok(RootCauseOutput)
    ELSE LET t == text.body
             trigger == SearchLine(t, "TRIGGER")
             chain == SearchLine(t, "CHAIN")
             digits == SearchDigits(t, "CONFIDENCE")
             reasoning == SearchReasoning(t)
             system == SearchLine(t, "SYSTEM")
         IN  Ok([trigger |-> Render(trigger.cap),
                 causal_chain |-> SelectNonEmpty(RenderAll(Split(chain.cap, Arrows))),
                 confidence |-> IF digits # "" THEN ClampPercent(ToInt(digits, 0)) ELSE 0,
                 reasoning |-> Render(StripNL(reasoning.cap)),
                 identified_system |-> Render(system.cap)])

\* re.search(LABEL + r':\s*(.+?)(?=\n[A-Z]|\Z)', text, IGNORECASE | DOTALL).
\* With nothing but line breaks after the colon, \s* gives one back and the
\* group holds it.
SearchBlock(t, label) ==
    LET occ == Positions(t, LAMBDA i : LabelColonAt(t, i, label) /\ i + 2 <= Len(t))
    IN  IF occ = <<>> THEN NoMatch
        ELSE LET j == SkipWs(t, occ[1] + 2)
                 k == LazyEnd(t, j, LAMBDA p : /\ t[p] = NL
                                               /\ p + 1 <= Len(t)
                                               /\ IsLetter(Head(t[p + 1])))
             IN  Match(SubSeq(t, j, k - 1))

\* raw.split('\n\n')[0]
FirstParagraph(t) ==
    SubSeq(t, 1, LazyEnd(t, 1, LAMBDA p : /\ t[p] = NL
                                          /\ p + 1 <= Len(t)
                                          /\ t[p + 1] = NL) - 1)

\* raw.split('\n')
Lines(t) == Split(t, {NL})

\* The characters of lstrip('-•*') that a token can start with
BulletChars == {"-", "*"}

\* First occurrences of the lines, compared with case folded; blank lines
\* dropped.
RECURSIVE Dedup(_, _)
Dedup(lines, seen) ==
    IF lines = <<>> THEN <<>>
    ELSE IF Head(lines) = "" \/ Upper(Head(lines)) \in seen
         THEN Dedup(Tail(lines), seen)
         ELSE <<Head(lines)>> \o Dedup(Tail(lines), seen \cup {Upper(Head(lines))})

\* The text handed to parse_impact holds no LaTeX command, no brace and no
\* run of dollar signs, so the three re.sub calls at its top leave it as it is.
parse_impact(text) ==
    IF text.empty THEN Ok(ImpactOutput)
    ELSE LET t == text.body
             aff == SearchBlock(t, "AFFECTED SYSTEMS")
             parts == SelectNonEmpty(RenderAll(Split(StripNL(aff.cap), {Comma, NL})))
             affected == [i \in 1..Len(parts) |->
                             Strip(LStripChars(parts[i], BulletChars))]
             user == SearchBlock(t, "USER IMPACT")
             duration == SearchBlock(t, "ESTIMATED DURATION")
             sev == SearchBlock(t, "SEVERITY JUSTIFICATION")
             fin == SearchBlock(t, "FINANCIAL IMPACT")
             primary == SearchLine(t, "PRIMARY SYSTEM")
         IN  Ok([affected_systems |-> affected,
                 user_impact |->
                     Join("\n", Dedup(Take(RenderAll(Lines(FirstParagraph(StripNL(user.cap)))), 5), {})),
                 estimated_duration |-> Render(Lines(StripNL(duration.cap))[1]),
                 severity_justification |->
                     Join(" ", Take(RenderAll(Lines(FirstParagraph(StripNL(sev.cap)))), 3)),
                 financial_impact |-> IF fin.matched
                                      THEN Render(Lines(StripNL(fin.cap))[1])
                                      ELSE "Unknown",
                 primary_system |-> IF primary.matched THEN Render(primary.cap)
                                    ELSE IF affected # <<>> THEN affected[1]
                                    ELSE ""])

\* all_labels of parse_actions (the default) and of parse_consistency_v2
ActionLabels == {"IMMEDIATE", "SHORT-TERM", "PREVENTIVE", "ROLLBACK PLAN", "TARGET SYSTEM"}

\* Variant: parse_consistency_v2 leaves all_labels to its default.
_CONSISTENCY_LABELS_Default == ActionLabels

_CONSISTENCY_LABELS == {"FACTUAL CONFLICTS", "INTERPRETATION CONFLICTS", "AGREEMENTS",
                        "QUALITY ASSESSMENT", "RECOMMENDATION"}

\* \([^)]+\): a parenthetical note
IsParen(tok) == Len(tok) >= 3 /\ StartsWith(tok, "(") /\ EndsWith(tok, ")")

\* The position after \*{0,2}\s*(?:\([^)]+\))?\s*:?\s* read from position p,
\* the note being read only when paren is TRUE
AfterLabel(t, p, paren) ==
    LET p1 == IF p <= Len(t) /\ t[p] = Bold THEN p + 1 ELSE p
        p2 == SkipWs(t, p1)
        p3 == IF paren /\ p2 <= Len(t) /\ IsParen(t[p2]) THEN p2 + 1 ELSE p2
        p4 == SkipWs(t, p3)
        p5 == IF p4 <= Len(t) /\ t[p4] = Colon THEN p4 + 1 ELSE p4
    IN  SkipWs(t, p5)

\* One of placeholder_patterns matches the cleaned line (re.match, IGNORECASE)
IsPlaceholder(cleaned) ==
    LET u == Upper(cleaned)
        bracketed == StartsWith(u, "[") /\ EndsWith(u, "]")
    IN  \/ bracketed /\ Contains(u, "EMPTY")
        \/ bracketed /\ ContainsInOrder(u, "NONE", "FOUND")
        \/ bracketed /\ ContainsInOrder(u, "IF", "NONE")
        \/ u \in {"NONE", "NONE FOUND", "N/A", "EMPTY"}
        \/ Contains(u, "NONE FOUND")
        \/ u \in {"-NONE", "- NONE"}

\* re.sub(r'^\s*\*{0,2}', '', line)
DropLeadingBold(s) ==
    LET a == LStrip(s)
    IN  IF StartsWith(a, "**") THEN SubSeq(a, 3, Len(a))
        ELSE IF StartsWith(a, "*") THEN SubSeq(a, 2, Len(a))
        ELSE a

\* re.sub(r'\*{0,2}\s*$', '', cleaned)
DropTrailingBold(s) ==
    LET a == RStrip(s)
    IN  IF EndsWith(a, "**") THEN SubSeq(a, 1, Len(a) - 2)
        ELSE IF EndsWith(a, "*") THEN SubSeq(a, 1, Len(a) - 1)
        ELSE a

\* re.sub(r'^[\s]*(?:\d+[\.\)]\s*|[-•*]\s*)', '', cleaned).strip()
DropBullet(s) ==
    LET a == LStrip(s)
        d == LeadingDigits(a)
        rest == SubSeq(a, Len(d) + 1, Len(a))
    IN  IF d # "" /\ (StartsWith(rest, ".") \/ StartsWith(rest, ")"))
        THEN Strip(SubSeq(rest, 2, Len(rest)))
        ELSE IF a # "" /\ Head(a) \in BulletChars
        THEN Strip(Tail(a))
        ELSE Strip(a)

CleanLine(line) == DropBullet(DropTrailingBold(DropLeadingBold(line)))

\* A label of others, bare or after a bold marker, starts at position p
BoundaryAt(t, p, others) ==
    \/ Upper(t[p]) \in others
    \/ t[p] = Bold /\ p + 1 <= Len(t) /\ Upper(t[p + 1]) \in others

_extract_numbered_or_bulleted_list(t, label, all_labels) ==
    LET occ == Positions(t, LAMBDA i : Upper(t[i]) = label)
    IN  IF occ = <<>> THEN <<>>
        ELSE LET p == AfterLabel(t, occ[1] + 1, TRUE)
                 k == LazyEnd(t, p, LAMBDA q : BoundaryAt(t, q, all_labels \ {label}))
                 block == StripNL(SubSeq(t, p, k - 1))
                 cleaned == [i \in 1..Len(Lines(block)) |->
                                CleanLine(Render(Lines(block)[i]))]
             IN  SelectSeq(cleaned, LAMBDA c : c # "" /\ ~IsPlaceholder(c))

\* \n\*{0,2}[A-Z][A-Z\s]+ starts at position p: a line break, then a line
\* whose first two characters are a letter and a letter or blank
HeadingAt(t, p) ==
    /\ t[p] = NL
    /\ p + 1 <= Len(t)
    /\ LET q == IF t[p + 1] = Bold THEN p + 2 ELSE p + 1
       IN  /\ q <= Len(t)
           /\ IsLetter(Head(t[q]))
           /\ IF Len(t[q]) >= 2
              THEN IsLetter(CharAt(t[q], 2)) \/ CharAt(t[q], 2) = " "
              ELSE q + 1 <= Len(t) /\ t[q + 1] \notin {Bold, Colon, Comma}

\* re.sub(r'^\*{2,}|\*{2,}$', '', target_value).strip()
DropBoldEnds(s) ==
    LET a == IF StartsWith(s, "**") THEN LStripChars(s, {"*"}) ELSE s
        RECURSIVE RStripStars(_)
        RStripStars(x) == IF EndsWith(x, "*") THEN RStripStars(SubSeq(x, 1, Len(x) - 1)) ELSE x
    IN  Strip(IF EndsWith(a, "**") THEN RStripStars(a) ELSE a)

\* re.search(rollback_pattern, text, IGNORECASE | DOTALL)
SearchRollback(t) ==
    LET occ == Positions(t, LAMBDA i : Upper(t[i]) = "ROLLBACK PLAN")
    IN  IF occ = <<>> THEN NoMatch
        ELSE LET p == AfterLabel(t, occ[1] + 1, FALSE)
                 k == LazyEnd(t, p, LAMBDA q : HeadingAt(t, q))
             IN  Match(SubSeq(t, p, k - 1))

\* re.search(target_pattern, text, IGNORECASE): the rest of the line after the
\* label. With nothing after the label's colon or bold marker, the optional
\* part gives back its last character and the group holds that.
SearchTarget(t) ==
    LET occ == Positions(t, LAMBDA i : Upper(t[i]) = "TARGET SYSTEM")
    IN  IF occ = <<>> THEN NoMatch
        ELSE LET i == occ[1]
                 p == AfterLabel(t, i + 1, FALSE)
             IN  IF p <= Len(t) THEN Match(SubSeq(t, p, LineEnd(t, p)))
                 ELSE IF \E q \in (i + 1)..Len(t) : t[q] = Colon THEN Match(<<Colon>>)
                 ELSE IF i < Len(t) /\ t[i + 1] = Bold THEN Match(<<"*">>)
                 ELSE NoMatch

parse_actions(text) ==
    IF text.empty THEN Ok(ActionsOutput)
    ELSE LET t == text.body
             rollback == SearchRollback(t)
             target == SearchTarget(t)
         IN  Ok([immediate |-> _extract_numbered_or_bulleted_list(t, "IMMEDIATE", ActionLabels),
                 short_term |-> _extract_numbered_or_bulleted_list(t, "SHORT-TERM", ActionLabels),
                 preventive |-> _extract_numbered_or_bulleted_list(t, "PREVENTIVE", ActionLabels),
                 rollback_plan |-> Render(StripNL(rollback.cap)),
                 target_system |-> DropBoldEnds(Render(target.cap))])

\* A Python float in hundredths, or the ValueError float() raises.
FloatOk(v) == [ok |-> TRUE, val |-> v]
FloatError == [ok |-> FALSE, val |-> 0]

\* The hundredths a digit string after the decimal point stands for, further
\* decimals cut off.
Hundredths(d) ==
    IF d = "" THEN 0
    ELSE IF Len(d) = 1 THEN 10 * ToInt(d, 0)
    ELSE ToInt(SubSeq(d, 1, 2), 0)

\* float(s) of a string of digits with at most one point and an optional sign
StrToFloat(s) ==
    LET neg == StartsWith(s, "-")
        a == IF neg THEN Tail(s) ELSE s
        ip == LeadingDigits(a)
        rest == SubSeq(a, Len(ip) + 1, Len(a))
        fp == IF rest = "" THEN "" ELSE LeadingDigits(Tail(rest))
        v == 100 * ToInt(ip, 0) + Hundredths(fp)
    IN  IF rest # "" /\ (Head(rest) # "." \/ Len(fp) + 1 # Len(rest)) THEN FloatError
        ELSE IF ip = "" /\ fp = "" THEN FloatError
        ELSE FloatOk(IF neg THEN 0 - v ELSE v)

\* the longest prefix of s matching [\d.]+
RECURSIVE LeadingNumChars(_)
LeadingNumChars(s) ==
    IF s = "" \/ (Head(s) \notin Digits /\ Head(s) # ".") THEN ""
    ELSE Head(s) \o LeadingNumChars(Tail(s))

\* re.search(r'CONFIDENCE:\s*([\d.]+)', text, re.IGNORECASE): group(1), ""
\* when there is no match
SearchNumChars(t, label) ==
    LET occ == Positions(t, LAMBDA i :
                   /\ LabelColonAt(t, i, label)
                   /\ SkipWs(t, i + 2) <= Len(t)
                   /\ LeadingNumChars(t[SkipWs(t, i + 2)]) # "")
    IN  IF occ = <<>> THEN "" ELSE LeadingNumChars(t[SkipWs(t, occ[1] + 2)])

JsonKeys == {"suggested_system", "confidence", "primary_contact",
             "backup_contacts", "best_runbook", "alternative_runbooks",
             "similar_incidents", "financial_context", "reasoning",
             "kb_sources_used"}

\* The except branch of parse_knowledge: label-anchored extraction over out.
\* float() of a matched [\d.]+ that is no number raises inside the handler.
KnowledgeFallback(b, out) ==
    LET sys == SearchLine(b.labels, "SUGGESTED SYSTEM")
        out1 == IF sys.matched
                THEN [out EXCEPT !.suggested_system = JStr(Render(sys.cap))]
                ELSE out
        num == SearchNumChars(b.labels, "CONFIDENCE")
    IN  IF num = "" THEN Ok(out1)
        ELSE IF ~StrToFloat(num).ok
             THEN Raised("could not convert string to float")
             ELSE Ok([out1 EXCEPT !.confidence = StrToFloat(num).val])

\* The assignments after out.confidence on the JSON path
KnowledgeRest(d, out) ==
    [out EXCEPT
        !.primary_contact = JGet(d, "primary_contact", JDict("", "", "")),
        !.backup_contacts = JGet(d, "backup_contacts", JList(0)),
        !.best_runbook = JGet(d, "best_runbook", JDict("", "", "")),
        !.alternative_runbooks = JGet(d, "alternative_runbooks", JList(0)),
        !.similar_incidents = JGet(d, "similar_incidents", JList(0)),
        !.financial_context = JGet(d, "financial_context", JDict("", "", "")),
        !.reasoning = JGet(d, "reasoning", JStr("")),
        !.kb_sources_used = JGet(d, "kb_sources_used", JNum(0))]

\* Body of a Knowledge text: json ("none": the text has no {...} span, "bad":
\* the span does not decode, "obj": it decodes to the dict data, key -> JVal),
\* and labels, the tokens of the lines that follow the span. A JSON number is
\* held in hundredths.
parse_knowledge(text) ==
    IF text.empty THEN Ok(KnowledgeOutput)
    ELSE LET b == text.body
             out == KnowledgeOutput
         IN  CASE b.json = "none" -> Ok(out)
               [] b.json = "bad"  -> KnowledgeFallback(b, out)
               [] b.json = "obj"  ->
                    LET d == b.data
                        out1 == [out EXCEPT !.suggested_system =
                                     JGet(d, "suggested_system", JStr(""))]
                        c == JGet(d, "confidence", JNum(0))
                    IN  CASE c.t = "num" ->
                               Ok(KnowledgeRest(d, [out1 EXCEPT !.confidence = c.n]))
                          [] c.t = "str" ->
                               IF StrToFloat(c.s).ok
                               THEN Ok(KnowledgeRest(d, [out1 EXCEPT
                                                         !.confidence = StrToFloat(c.s).val]))
                               ELSE KnowledgeFallback(b, out1)
                          [] OTHER -> Raised("float() argument must be a string or a real number")

\* [A-Z][A-Z ]+ under re.IGNORECASE matches the whole token
RECURSIVE IsAlphaOrBlank(_)
IsAlphaOrBlank(s) ==
    s # "" /\ (IsLetter(Head(s)) \/ Head(s) = " ") /\ (Len(s) = 1 \/ IsAlphaOrBlank(Tail(s)))

\* \n[A-Z][A-Z ]+: starts at position p: a line break, then letters and
\* blanks (two characters or more, a letter first) up to a colon
LabelLineAt(t, p) ==
    /\ t[p] = NL
    /\ \E e \in (p + 2)..Len(t) :
          /\ t[e] = Colon
          /\ \A q \in (p + 1)..(e - 1) : IsAlphaOrBlank(t[q])
          /\ IsLetter(Head(t[p + 1]))
          /\ (e > p + 2 \/ Len(t[p + 1]) >= 2)

\* sub in text.upper(), for a sub that holds no blank and no separator and so
\* lies within one token
AnyTokenContains(t, sub) == \E i \in 1..Len(t) : Contains(Upper(t[i]), sub)

\* re.search(r'QUALITY ASSESSMENT:\s*(.+?)(?=\n[A-Z][A-Z ]+:|$)', text,
\* IGNORECASE | DOTALL). With nothing but line breaks after the colon, \s*
\* gives one back and the group holds it.
SearchQuality(t) ==
    LET occ == Positions(t, LAMBDA i : LabelColonAt(t, i, "QUALITY ASSESSMENT")
                                        /\ i + 2 <= Len(t))
    IN  IF occ = <<>> THEN NoMatch
        ELSE LET j == SkipWs(t, occ[1] + 2)
                 k == LazyEnd(t, j, LAMBDA p : LabelLineAt(t, p))
             IN  Match(SubSeq(t, j, k - 1))

\* re.search(r'RECOMMENDATION:\s*(.+)', text, IGNORECASE | DOTALL)
SearchRest(t, label) ==
    LET occ == Positions(t, LAMBDA i : LabelColonAt(t, i, label) /\ i + 2 <= Len(t))
    IN  IF occ = <<>> THEN NoMatch
        ELSE Match(SubSeq(t, SkipWs(t, occ[1] + 2), Len(t)))

\* Variant: LOW is looked for as well, and any other wording scores 0.
QualityScore_UnmatchedZero(quality) ==
    IF AnyTokenContains(quality, "HIGH") THEN 90
    ELSE IF AnyTokenContains(quality, "MEDIUM") THEN 60
    ELSE IF AnyTokenContains(quality, "LOW") THEN 30
    ELSE 0

\* The if / elif / else over out.quality_assessment.upper()
QualityScore(quality) ==
    IF AnyTokenContains(quality, "HIGH") THEN 90
    ELSE IF AnyTokenContains(quality, "MEDIUM") THEN 60
    ELSE 30

parse_consistency_v2(text) ==
    IF text.empty THEN Ok(ConsistencyOutput)
    ELSE LET t == text.body
             q == SearchQuality(t)
             quality == StripNL(q.cap)
             rec == SearchRest(t, "RECOMMENDATION")
         IN  Ok([factual_conflicts |->
                     _extract_numbered_or_bulleted_list(t, "FACTUAL CONFLICTS", _CONSISTENCY_LABELS),
                 interpretation_conflicts |->
                     _extract_numbered_or_bulleted_list(t, "INTERPRETATION CONFLICTS", _CONSISTENCY_LABELS),
                 agreements |->
                     _extract_numbered_or_bulleted_list(t, "AGREEMENTS", _CONSISTENCY_LABELS),
                 confidence |-> IF q.matched THEN QualityScore(quality) ELSE 0,
                 quality_assessment |-> Render(quality),
                 recommendation |-> Render(StripNL(rec.cap))])

Parser(r, text) ==
    CASE r = "root_cause"  -> parse_root_cause(text)
      [] r = "impact"      -> parse_impact(text)
      [] r = "actions"     -> parse_actions(text)
      [] r = "knowledge"   -> parse_knowledge(text)
      [] r = "consistency" -> parse_consistency_v2(text)

-----------------------------------------------------------------------------
(* Agent executor.                                                         *)

EmptyResponse == "Empty response from LLM"

\* What a call of _run_agent yields: the tuple (name, output, elapsed, error),
\* or an exception leaving the function (exc). elapsed is a wall-clock
\* reading and is carried only as the key under which it is later stored.
Tuple(name, out, err) == [exc |-> FALSE, name |-> name, out |-> out, err |-> err]
Escapes(name, r) == [exc |-> TRUE, name |-> name, out |-> ZeroOutput(r), err |-> None]

\* Variant: "if raw is None" in place of "if not raw".
_run_agent_NoneOnly(name, r, response) ==
    IF response.kind = "raise"
    THEN Tuple(name, Parser(r, RawEmpty).out, Some(response.msg))
    ELSE IF response.kind = "none"
    THEN Tuple(name, Parser(r, RawEmpty).out, Some(EmptyResponse))
    ELSE LET p == Parser(r, response) IN
         IF p.raised
         THEN Tuple(name, Parser(r, RawEmpty).out, Some(p.msg))
         ELSE Tuple(name, p.out, None)

\* Variant: no try/except around the completion call.
_run_agent_NoCatch(name, r, response) ==
    IF response.kind = "raise"
    THEN Escapes(name, r)
    ELSE IF Falsy(response)
    THEN Tuple(name, Parser(r, RawEmpty).out, Some(EmptyResponse))
    ELSE LET p == Parser(r, response) IN
         IF p.raised
         THEN Tuple(name, Parser(r, RawEmpty).out, Some(p.msg))
         ELSE Tuple(name, p.out, None)

_run_agent(name, r, response) ==
    IF response.kind = "raise"
    THEN Tuple(name, Parser(r, RawEmpty).out, Some(response.msg))
    ELSE IF Falsy(response)
    THEN Tuple(name, Parser(r, RawEmpty).out, Some(EmptyResponse))
    ELSE LET p == Parser(r, response) IN
         IF p.raised
         THEN Tuple(name, Parser(r, RawEmpty).out, Some(p.msg))
         ELSE Tuple(name, p.out, None)

-----------------------------------------------------------------------------
(* Inputs of one analysis.                                                 *)

Severities == {"CRITICAL", "ERROR", "INFO"}
Confidences == {0, 74, 75, 90}

CommonResponses == {RawNone, RawEmpty, RawRaise(""), RawRaise("timeout")}

\* A text in which no label of any prompt occurs.
NoLabels == RawText(<<"no analysis available">>)

RootCauseTexts ==
    {RawText(<<"SYSTEM", Colon, "Server_A", NL,
               "TRIGGER", Colon, "pool exhausted", NL,
               "CHAIN", Colon, "pool exhausted", "->", "->", "timeouts", NL,
               "CONFIDENCE", Colon, "150", NL,
               "REASONING", Colon, "first event">>),
     RawText(<<"CHAIN", Colon, "deploy", "->", "restart loop">>),
     NoLabels}

ImpactTexts ==
    {RawText(<<"AFFECTED SYSTEMS", Colon, "Server_A", Comma, "Server_B", NL,
               "USER IMPACT", Colon, NL,
               "-", "checkout down", NL,
               "-", "Checkout down", NL,
               "ESTIMATED DURATION", Colon, "1h", NL,
               "FINANCIAL IMPACT", Colon, "$5k-$50k", NL,
               "SEVERITY JUSTIFICATION", Colon, "all users">>),
     RawText(<<"AFFECTED SYSTEMS", Colon, "Server_C">>),
     NoLabels}

ActionsTexts ==
    {RawText(<<"TARGET SYSTEM", Colon, "Server_A", NL,
               "IMMEDIATE", Colon, NL,
               "-", "restart pool", NL,
               "-", "None found", NL,
               "SHORT-TERM", Colon, NL,
               "-", "n/a", NL,
               "PREVENTIVE", Colon, NL,
               "-", "add alert", NL,
               "ROLLBACK PLAN", Colon, "revert config">>),
     NoLabels}

NoData == [k \in JsonKeys |-> JAbsent]

\* A Knowledge text: the {...} span and the label lines after it.
KnowledgeText(json, data, labels) ==
    RawText([json |-> json, data |-> data, labels |-> labels])

FallbackLabels == <<"SUGGESTED SYSTEM", Colon, "Server_B", NL, "CONFIDENCE", Colon, "0.6">>

KnowledgeTexts ==
    {KnowledgeText("obj", [NoData EXCEPT !["suggested_system"] = JStr("Server_A"),
                                         !["confidence"] = JNum(80),
                                         !["primary_contact"] = JDict("Alice", "DBA", ""),
                                         !["best_runbook"] = JDict("", "", "Pool runbook"),
                                         !["similar_incidents"] = JList(1)], <<>>),
     KnowledgeText("obj", [NoData EXCEPT !["suggested_system"] = JStr("Server_A"),
                                         !["primary_contact"] = JStr("Alice")], <<>>),
     KnowledgeText("obj", [NoData EXCEPT !["confidence"] = JNull], <<>>),
     KnowledgeText("obj", [NoData EXCEPT !["confidence"] = JStr("high")], FallbackLabels),
     KnowledgeText("none", NoData, FallbackLabels)}

ConsistencyTexts ==
    {RawText(<<"FACTUAL CONFLICTS", Colon, NL,
               "INTERPRETATION CONFLICTS", Colon, NL,
               "-", "None found", NL,
               "AGREEMENTS", Colon, NL,
               "-", "same system", NL,
               "QUALITY ASSESSMENT", Colon, "HIGH", "-", "aligned", NL,
               "RECOMMENDATION", Colon, "proceed">>),
     RawText(<<"FACTUAL CONFLICTS", Colon, NL,
               "-", "RootCause names Server_A but Impact names Server_B", NL,
               "INTERPRETATION CONFLICTS", Colon, NL,
               "AGREEMENTS", Colon, NL,
               "QUALITY ASSESSMENT", Colon, "LOW", NL,
               "RECOMMENDATION", Colon, "review manually">>),
     NoLabels}

Texts(r) ==
    CASE r = "root_cause"  -> RootCauseTexts
      [] r = "impact"      -> ImpactTexts
      [] r = "actions"     -> ActionsTexts
      [] r = "knowledge"   -> KnowledgeTexts
      [] r = "consistency" -> ConsistencyTexts

\* What llm_callable may do for a role's prompt.
Responses(r) == CommonResponses \cup Texts(r)

-----------------------------------------------------------------------------
(* Pure steps of run_multi_agent_v2.                                       *)

SequentialThreshold == 75

\* Variant: the threshold compared with > in place of >=.
use_sequential_Strict(sev, conf) == sev = "CRITICAL" /\ conf > SequentialThreshold

use_sequential(sev, conf) == sev = "CRITICAL" /\ conf >= SequentialThreshold

ModeName(seq) == IF seq THEN "partial_sequential" ELSE "parallel"

\* f"{x:.0%}" of a float held in hundredths
Percent(n) == ToString(n) \o "%"

\* The parts of agent_context built from the Phase-1 outputs.
\* The chain separator is an arrow character in the source; " -> " here.
\* Variant: the KB line is appended inside the trigger block.
AgentContextParts_KbUnderTrigger(rc, imp, kb) ==
    (IF rc.trigger # ""
     THEN (IF JTruthy(kb.suggested_system)
           THEN <<"KB Suggests: " \o JRender(kb.suggested_system)
                  \o " (confidence: " \o Percent(kb.confidence) \o ")">>
           ELSE <<>>)
          \o <<"Root Cause: " \o rc.trigger>>
          \o (IF rc.causal_chain # <<>>
              THEN <<"Chain: " \o Join(" -> ", rc.causal_chain)>> ELSE <<>>)
     ELSE <<>>)
    \o (IF imp.user_impact # "" THEN <<"Impact: " \o imp.user_impact>> ELSE <<>>)
    \o (IF imp.affected_systems # <<>>
        THEN <<"Affected: " \o Join(", ", imp.affected_systems)>> ELSE <<>>)

AgentContextParts(rc, imp, kb) ==
    (IF JTruthy(kb.suggested_system)
     THEN <<"KB Suggests: " \o JRender(kb.suggested_system)
            \o " (confidence: " \o Percent(kb.confidence) \o ")">>
     ELSE <<>>)
    \o (IF rc.trigger # ""
        THEN <<"Root Cause: " \o rc.trigger>>
             \o (IF rc.causal_chain # <<>>
                 THEN <<"Chain: " \o Join(" -> ", rc.causal_chain)>> ELSE <<>>)
        ELSE <<>>)
    \o (IF imp.user_impact # "" THEN <<"Impact: " \o imp.user_impact>> ELSE <<>>)
    \o (IF imp.affected_systems # <<>>
        THEN <<"Affected: " \o Join(", ", imp.affected_systems)>> ELSE <<>>)

\* agent_context: the joined parts, or None when there are none.
AgentContext(rc, imp, kb) ==
    LET parts == AgentContextParts(rc, imp, kb) IN
    IF parts = <<>> THEN None ELSE Some(Join("\n", parts))

\* build_consistency_prompt_v2 returns the prompt or raises: .get needs a
\* dict, len() a sized value.
build_consistency_prompt_v2(rc, imp, act, kb) ==
    IF kb.primary_contact.t # "dict"
    THEN Raised("AttributeError: object has no attribute 'get'")
    ELSE IF kb.best_runbook.t # "dict"
    THEN Raised("AttributeError: object has no attribute 'get'")
    ELSE IF kb.similar_incidents.t \notin {"list", "dict", "str"}
    THEN Raised("TypeError: object has no len()")
    ELSE Ok([rc_system |-> rc.identified_system, rc_trigger |-> rc.trigger,
             imp_system |-> imp.primary_system, act_system |-> act.target_system,
             first_action |-> IF act.immediate # <<>> THEN act.immediate[1] ELSE "None",
             kb_system |-> JRender(kb.suggested_system),
             kb_contact |-> IF kb.primary_contact.name # ""
                            THEN kb.primary_contact.name ELSE "Unknown"])

\* result.errors.append(f"{label}: {err}") under "if err:"
AppendError(errs, label, err) ==
    IF Truthy(err) THEN Append(errs, label \o ": " \o err.msg) ELSE errs

-----------------------------------------------------------------------------
(* The state machine.                                                      *)

Pending == [kind |-> "pending"]

NoTuple(r) == Tuple("", ZeroOutput(r), None)

\* The state in which run_multi_agent_v2 is entered.
Entered ==
    /\ pc = "decide"
    /\ mode_used = ""
    /\ status = [r \in Roles |-> "idle"]
    /\ calls = [r \in Roles |-> 0]
    /\ raw = [r \in Roles |-> Pending]
    /\ fut = [r \in Roles |-> NoTuple(r)]
    /\ gathered = 0
    /\ result = MultiAgentResult
    /\ agent_times = {}
    /\ errors = <<>>
    /\ agent_context = None

\* No parser is applied on its own.
ParseIdle ==
    /\ parse_role = ""
    /\ parse_text = RawEmpty
    /\ parse_result = Pending

\* No SanitizationPipeline and no LLMSanitizer is at work.
SanIdle ==
    /\ san_call = ""
    /\ backend_type = ""
    /\ has_callable = FALSE
    /\ san_pc = "idle"
    /\ san_text = <<>>
    /\ regex_out = Pending
    /\ llm_text = <<>>
    /\ chunk_start = 0
    /\ chunks = <<>>
    /\ chunk_i = 0
    /\ elapsed_total = 0
    /\ sanitized_chunks = <<>>
    /\ all_findings = <<>>
    /\ timeout_flags = <<>>
    /\ llm_out = Pending
    /\ san_result = Pending

\* No _call_groq_api is under way.
GroqIdle ==
    /\ groq_pc = "idle"
    /\ groq_attempt = 0
    /\ groq_log = <<>>
    /\ groq_clock = 0
    /\ groq_result = Pending

Init ==
    /\ severity \in Severities
    /\ system_confidence \in Confidences
    /\ Entered
    /\ ParseIdle
    /\ SanIdle
    /\ GroqIdle

\* Step 3: decide mode.
DecideMode ==
    /\ pc = "decide"
    /\ mode_used' = ModeName(use_sequential(severity, system_confidence))
    /\ pc' = "dispatch"
    /\ UNCHANGED <<san_vars, groq_vars, parse_role, parse_text, parse_result,
                 severity, system_confidence, status, calls, raw, fut,
                   gathered, result, agent_times, errors, agent_context>>

FuturesOrder == IF mode_used = "partial_sequential" THEN Phase1Order ELSE ParallelOrder

InOrder(order) == {order[i] : i \in 1..Len(order)}

\* pool.submit of every task of the phase's futures dict.
Submit ==
    /\ pc = "dispatch"
    /\ status' = [r \in Roles |->
                    IF r \in InOrder(FuturesOrder) THEN "submitted" ELSE status[r]]
    /\ pc' = "gather"
    /\ UNCHANGED <<san_vars, groq_vars, parse_role, parse_text, parse_result,
                 severity, system_confidence, mode_used, calls, raw, fut,
                   gathered, result, agent_times, errors, agent_context>>

\* _run_agent reaches llm_callable(prompt, ...).
AgentStart(r) ==
    /\ status[r] = "submitted"
    /\ status' = [status EXCEPT ![r] = "running"]
    /\ calls' = [calls EXCEPT ![r] = @ + 1]
    /\ UNCHANGED <<san_vars, groq_vars, parse_role, parse_text, parse_result,
                 severity, system_confidence, pc, mode_used, raw, fut,
                   gathered, result, agent_times, errors, agent_context>>

\* The tuple _run_agent returns for each response of each role: it is a
\* function of the role and of what llm_callable did.
AgentResult ==
    [r \in Roles |-> [x \in Responses(r) |-> _run_agent(AgentName(r), r, x)]]

\* llm_callable returns or raises and _run_agent finishes.
\* Variant: the worker appends its own error to result.errors when it ends.
AgentReturn_RecordsError(r) ==
    /\ status[r] = "running"
    /\ \E response \in Responses(r) :
         /\ raw' = [raw EXCEPT ![r] = response]
         /\ fut' = [fut EXCEPT ![r] = AgentResult[r][response]]
         /\ errors' = AppendError(errors, AgentName(r), AgentResult[r][response].err)
    /\ status' = [status EXCEPT ![r] = "done"]
    /\ UNCHANGED <<san_vars, groq_vars, parse_role, parse_text, parse_result,
                 severity, system_confidence, pc, mode_used, calls,
                   gathered, result, agent_times, agent_context>>

AgentReturn(r) ==
    /\ status[r] = "running"
    /\ \E response \in Responses(r) :
         /\ raw' = [raw EXCEPT ![r] = response]
         /\ fut' = [fut EXCEPT ![r] = AgentResult[r][response]]
    /\ status' = [status EXCEPT ![r] = "done"]
    /\ UNCHANGED <<san_vars, groq_vars, parse_role, parse_text, parse_result,
                 severity, system_confidence, pc, mode_used, calls,
                   gathered, result, agent_times, errors, agent_context>>

\* Variant: the result is taken as soon as the task has started.
FutureResultReady_Started(r) == status[r] \in {"running", "done"}

\* Variant: the futures are read without waiting for their tasks.
FutureResultReady_NoWait(r) == status[r] # "idle"

\* Variant: only the first future of the dict is waited for.
FutureResultReady_First(r) == status["root_cause"] = "done"

\* Future.result() blocks until the task is done.
FutureResultReady(r) == status[r] = "done"

\* One iteration of {name: f.result() for name, f in futures.items()};
\* f.result() re-raises what left the task.
Gather ==
    /\ pc = "gather"
    /\ gathered < Len(FuturesOrder)
    /\ FutureResultReady(FuturesOrder[gathered + 1])
    /\ gathered' = gathered + 1
    /\ pc' = IF fut[FuturesOrder[gathered + 1]].exc THEN "raised" ELSE pc
    /\ UNCHANGED <<san_vars, groq_vars, parse_role, parse_text, parse_result,
                 severity, system_confidence, mode_used, status, calls, raw,
                   fut, result, agent_times, errors, agent_context>>

\* Unpack phase 1, build the digest and enter the Actions call.
UnpackPhase1 ==
    /\ pc = "gather"
    /\ mode_used = "partial_sequential"
    /\ gathered = Len(Phase1Order)
    /\ result' = [result EXCEPT !.root_cause = fut["root_cause"].out,
                                !.impact = fut["impact"].out,
                                !.knowledge = fut["knowledge"].out]
    /\ agent_times' = agent_times \cup {"root_cause", "impact", "knowledge"}
    /\ errors' = AppendError(AppendError(AppendError(errors,
                     "RootCause", fut["root_cause"].err),
                     "Impact", fut["impact"].err),
                     "Knowledge", fut["knowledge"].err)
    /\ agent_context' = AgentContext(fut["root_cause"].out, fut["impact"].out,
                                     fut["knowledge"].out)
    /\ status' = [status EXCEPT !["actions"] = "submitted"]
    /\ pc' = "phase2"
    /\ UNCHANGED <<san_vars, groq_vars, parse_role, parse_text, parse_result,
                 severity, system_confidence, mode_used, calls, raw, fut, gathered>>

\* The Actions call of phase 2 has returned to the orchestrator.
RecordActions ==
    /\ pc = "phase2"
    /\ status["actions"] = "done"
    /\ IF fut["actions"].exc
       THEN pc' = "raised" /\ UNCHANGED <<result, agent_times, errors>>
       ELSE /\ result' = [result EXCEPT !.actions = fut["actions"].out]
            /\ agent_times' = agent_times \cup {"actions"}
            /\ errors' = AppendError(errors, "Actions", fut["actions"].err)
            /\ pc' = "consistency"
    /\ UNCHANGED <<san_vars, groq_vars, parse_role, parse_text, parse_result,
                 severity, system_confidence, mode_used, status, calls, raw,
                   fut, gathered, agent_context>>

RECURSIVE CollectErrors(_, _, _)
CollectErrors(errs, order, results) ==
    IF order = <<>> THEN errs
    ELSE CollectErrors(AppendError(errs, Head(order), results[Head(order)].err),
                       Tail(order), results)

\* Parallel plan: times and errors per results item, then the four outputs.
UnpackParallel ==
    /\ pc = "gather"
    /\ mode_used = "parallel"
    /\ gathered = Len(ParallelOrder)
    /\ agent_times' = agent_times \cup InOrder(ParallelOrder)
    /\ errors' = CollectErrors(errors, ParallelOrder, fut)
    /\ result' = [result EXCEPT !.root_cause = fut["root_cause"].out,
                                !.impact = fut["impact"].out,
                                !.actions = fut["actions"].out,
                                !.knowledge = fut["knowledge"].out]
    /\ pc' = "consistency"
    /\ UNCHANGED <<san_vars, groq_vars, parse_role, parse_text, parse_result,
                 severity, system_confidence, mode_used, status, calls, raw,
                   fut, gathered, agent_context>>

\* Build the consistency prompt and enter the Consistency call; an exception
\* of the builder leaves run_multi_agent_v2.
StartConsistency ==
    /\ pc = "consistency"
    /\ IF build_consistency_prompt_v2(result.root_cause, result.impact,
                                      result.actions, result.knowledge).raised
       THEN pc' = "raised" /\ UNCHANGED status
       ELSE /\ status' = [status EXCEPT !["consistency"] = "submitted"]
            /\ pc' = "cons_call"
    /\ UNCHANGED <<san_vars, groq_vars, parse_role, parse_text, parse_result,
                 severity, system_confidence, mode_used, calls, raw, fut,
                   gathered, result, agent_times, errors, agent_context>>

\* The Consistency call has returned; record it and return result.
Finish ==
    /\ pc = "cons_call"
    /\ status["consistency"] = "done"
    /\ IF fut["consistency"].exc
       THEN pc' = "raised" /\ UNCHANGED <<result, agent_times, errors>>
       ELSE /\ result' = [result EXCEPT !.consistency = fut["consistency"].out]
            /\ agent_times' = agent_times \cup {"consistency"}
            /\ errors' = AppendError(errors, "Consistency", fut["consistency"].err)
            /\ pc' = "returned"
    /\ UNCHANGED <<san_vars, groq_vars, parse_role, parse_text, parse_result,
                 severity, system_confidence, mode_used, status, calls, raw,
                   fut, gathered, agent_context>>

Next ==
    \/ DecideMode
    \/ Submit
    \/ \E r \in Roles : AgentStart(r)
    \/ \E r \in Roles : AgentReturn(r)
    \/ Gather
    \/ UnpackPhase1
    \/ RecordActions
    \/ UnpackParallel
    \/ StartConsistency
    \/ Finish

Spec == Init /\ [][Next]_vars

\* Every thread that can take a step takes it; llm_callable returns or raises.
FairSpec == Spec /\ WF_vars(Next)

-----------------------------------------------------------------------------
(* The parsers on their own: one parser applied to one text.               *)

\* Texts are built from at most MaxItems items per list.
MaxItems == 2

\* All sequences over S of length 0 .. n
RECURSIVE SeqsUpTo(_, _)
SeqsUpTo(S, n) ==
    IF n = 0 THEN {<<>>}
    ELSE LET shorter == SeqsUpTo(S, n - 1)
         IN  shorter \cup {Append(q, x) : q \in {z \in shorter : Len(z) = n - 1}, x \in S}

\* The token sequences of parts, with the tokens of sep between them
RECURSIVE JoinTokens(_, _)
JoinTokens(sep, parts) ==
    IF parts = <<>> THEN <<>>
    ELSE IF Len(parts) = 1 THEN parts[1]
    ELSE parts[1] \o sep \o JoinTokens(sep, Tail(parts))

\* What the prompts tell the model to write for an empty list, and items.
PlaceholderItems == {"none", "N/A", "[Empty if none]"}
ValidItems == {"Server_A", "restart pool"}
Items == PlaceholderItems \cup ValidItems

\* A line of a list: an item, bare or after a bullet
ItemLines == {b \o <<x>> : b \in {<<>>, <<"-">>}, x \in Items}

ItemLists == SeqsUpTo(ItemLines, MaxItems)

\* A list section: the label, a colon, and one line per item
Section(label, lines) == <<label, Colon, NL>> \o JoinTokens(<<NL>>, lines)

\* Actions texts: one list section, then the rollback line
ActionsListTexts ==
    {RawText(Section(l, ls) \o <<NL, "ROLLBACK PLAN", Colon, "revert config">>) :
        l \in {"IMMEDIATE", "SHORT-TERM", "PREVENTIVE"}, ls \in ItemLists}

\* Consistency texts: one list section, then the quality line
ConsistencyListTexts ==
    {RawText(Section(l, ls) \o <<NL, "QUALITY ASSESSMENT", Colon, "MEDIUM">>) :
        l \in {"FACTUAL CONFLICTS", "INTERPRETATION CONFLICTS", "AGREEMENTS"},
        ls \in ItemLists}

\* Impact texts: AFFECTED SYSTEMS as a comma-separated line or as bulleted lines
AffectedTexts ==
    {RawText(<<"AFFECTED SYSTEMS", Colon>> \o JoinTokens(<<Comma>>, ls)) :
        ls \in SeqsUpTo({<<x>> : x \in Items}, MaxItems) \ {<<>>}}
    \cup {RawText(<<"AFFECTED SYSTEMS", Colon, NL>> \o JoinTokens(<<NL>>, ls)) :
        ls \in SeqsUpTo({<<"-", x>> : x \in Items}, MaxItems) \ {<<>>}}

\* RootCause texts: CHAIN as steps joined by arrows
ChainTexts ==
    {RawText(<<"CHAIN", Colon>> \o JoinTokens(<<"->">>, ls)) :
        ls \in SeqsUpTo({<<x>> : x \in Items}, MaxItems) \ {<<>>}}

\* A value written after a label has at most MaxValLen characters.
MaxValLen == 3

ValueChars == {"0", "1", "9", "-", ".", "h"}

\* The string of a sequence of characters
RECURSIVE Concat(_)
Concat(cs) == IF cs = <<>> THEN "" ELSE Head(cs) \o Concat(Tail(cs))

\* What a model may write after CONFIDENCE: - numbers in and out of range,
\* signed, fractional and non-numeric values
Values == {Concat(cs) : cs \in SeqsUpTo(ValueChars, MaxValLen) \ {<<>>}}

\* RootCause texts: no CONFIDENCE line; one, with the value on the label's
\* line or on the next; one, and the word again inside the reasoning
ConfidenceTexts ==
    {RawText(<<"TRIGGER", Colon, "pool exhausted">>)}
    \cup {RawText(<<"CONFIDENCE", Colon, v>>) : v \in Values}
    \cup {RawText(<<"CONFIDENCE", Colon, NL, v>>) : v \in Values}
    \cup {RawText(<<"CONFIDENCE", Colon, v, NL,
                    "REASONING", Colon, "my", "confidence", Colon, w, "at", "most">>) :
              v \in Values, w \in {"7", "h"}}

\* Knowledge texts whose JSON decodes, with confidence a number (85 is 8500
\* hundredths), a string, or of another type
JsonConfidenceTexts ==
    {KnowledgeText("obj", [NoData EXCEPT !["suggested_system"] = JStr("Server_A"),
                                         !["confidence"] = c], <<>>) :
        c \in {JNum(n) : n \in {-20, 0, 60, 100, 150, 8500}}
              \cup {JStr(v) : v \in Values}
              \cup {JNull, JList(1)}}

\* Knowledge texts in the label layout, without a {...} span and after one
\* that does not decode
LabelTexts ==
    {KnowledgeText(j, NoData, <<"SUGGESTED SYSTEM", Colon, "Server_B", NL,
                                "CONFIDENCE", Colon, v>>) :
        j \in {"none", "bad"}, v \in Values}

\* Words of a quality assessment
QualityWords == {"HIGH", "MEDIUM", "LOW", "high", "UNSURE", "-"}

\* Consistency texts: an AGREEMENTS section, then no quality line, or the
\* label with up to MaxItems words after it, ending the text or followed by a
\* line break or by the recommendation line
QualityTexts ==
    LET head == <<"AGREEMENTS", Colon, NL, "-", "same system">>
        tails == {<<>>, <<NL>>,
                  <<NL, "RECOMMENDATION", Colon, "act with high priority">>}
    IN  {RawText(head \o tl) : tl \in tails}
        \cup {RawText(head \o <<NL, "QUALITY ASSESSMENT", Colon>> \o ws \o tl) :
                 ws \in SeqsUpTo(QualityWords, MaxItems), tl \in tails}

\* Agreements a model may list: a system name, and sentences about the
\* agents' answers
AgreementItems ==
    {<<"Server_A">>,
     <<"All agents share the same", "recommendation">>,
     <<"No", "factual conflicts", "between agents">>}

AgreementLists == SeqsUpTo(AgreementItems, MaxItems) \ {<<>>}

\* The text of a perfect agreement: both conflict headers with nothing under
\* them, the agreements as bullets, quality HIGH; gap is what separates the
\* sections and q is how the quality line is laid out
PerfectAgreement(items, gap, q) ==
    <<"FACTUAL CONFLICTS", Colon, NL>> \o gap
    \o <<"INTERPRETATION CONFLICTS", Colon, NL>> \o gap
    \o <<"AGREEMENTS", Colon, NL>>
    \o JoinTokens(<<NL>>, [i \in 1..Len(items) |-> <<"-">> \o items[i]])
    \o <<NL>> \o gap \o <<"QUALITY ASSESSMENT", Colon>> \o q

SectionGaps == {<<>>, <<NL>>}
QualityHigh == {<<"HIGH">>, <<NL, "HIGH", "-", "perfect agreement">>}

PerfectAgreementTexts ==
    {RawText(PerfectAgreement(items, gap, q)) :
        items \in AgreementLists, gap \in SectionGaps, q \in QualityHigh}

\* Actions a model may list: short ones, and sentences that mention what
\* another section is called
ActionItems ==
    {<<"add alert">>,
     <<"review the", "rollback plan">>,
     <<"raise", "target system", "limits">>}

\* An Actions text: IMMEDIATE with nothing under it, then SHORT-TERM and
\* PREVENTIVE with one item each, then the rollback line
ActionsSections(short, prev) ==
    <<"IMMEDIATE", Colon, NL,
      "SHORT-TERM", Colon, NL, "-">> \o short
    \o <<NL, "PREVENTIVE", Colon, NL, "-">> \o prev
    \o <<NL, "ROLLBACK PLAN", Colon, "revert config">>

ActionsSectionTexts ==
    {RawText(ActionsSections(short, prev)) : short \in ActionItems, prev \in ActionItems}

\* The labels of a role's prompt that introduce a single value
ScalarLabels(r) ==
    CASE r = "root_cause" -> {"SYSTEM", "TRIGGER", "CHAIN", "CONFIDENCE", "REASONING"}
      [] r = "impact"     -> {"PRIMARY SYSTEM", "ESTIMATED DURATION", "FINANCIAL IMPACT"}
      [] r = "actions"    -> {"TARGET SYSTEM", "ROLLBACK PLAN"}
      [] OTHER            -> {}

\* A label with nothing after its colon, then the line of another label
EmptyLabel(label, next) == <<label, Colon, NL, next, Colon, "75">>

EmptyLabelTexts(r) ==
    {RawText(EmptyLabel(p[1], p[2])) :
        p \in {q \in ScalarLabels(r) \X ScalarLabels(r) : q[1] # q[2]}}

ParserInputs(r) ==
    {RawEmpty} \cup Texts(r) \cup EmptyLabelTexts(r) \cup
    CASE r = "root_cause"  -> ChainTexts \cup ConfidenceTexts
      [] r = "impact"      -> AffectedTexts
      [] r = "actions"     -> ActionsListTexts \cup ActionsSectionTexts
      [] r = "knowledge"   -> JsonConfidenceTexts \cup LabelTexts
      [] r = "consistency" ->
            ConsistencyListTexts \cup QualityTexts \cup PerfectAgreementTexts

ParseInit ==
    /\ severity = "INFO"
    /\ system_confidence = 0
    /\ Entered
    /\ parse_role \in Roles
    /\ parse_text \in ParserInputs(parse_role)
    /\ parse_result = Pending
    /\ SanIdle
    /\ GroqIdle

Apply(r) ==
    /\ parse_role = r
    /\ parse_result = Pending
    /\ parse_result' = Parser(r, parse_text)
    /\ UNCHANGED <<san_vars, groq_vars, parse_role, parse_text, severity, system_confidence, pc,
                   mode_used, status, calls, raw, fut, gathered, result,
                   agent_times, errors, agent_context>>

ParseRootCause == Apply("root_cause")
ParseImpact == Apply("impact")
ParseActions == Apply("actions")
ParseKnowledge == Apply("knowledge")
ParseConsistency == Apply("consistency")

ParseNext ==
    \/ ParseRootCause
    \/ ParseImpact
    \/ ParseActions
    \/ ParseKnowledge
    \/ ParseConsistency

ParseSpec == ParseInit /\ [][ParseNext]_vars

-----------------------------------------------------------------------------
(* Properties.                                                             *)

AnalysisRoles == {"root_cause", "impact", "actions", "knowledge"}
Phase1Roles == {"root_cause", "impact", "knowledge"}
Terminated == pc \in {"returned", "raised"}

\* The completion call of role r returned None or "".
ReturnedEmpty(r) == raw[r].kind \in {"none", "str"} /\ Falsy(raw[r])
\* The completion call of role r returned non-empty text.
ReturnedText(r) == raw[r].kind = "str" /\ ~raw[r].empty
\* The completion call of role r raised.
RaisedException(r) == raw[r].kind = "raise"

\* result.errors has an entry for role r carrying message m, under either
\* of the two labels the plans use.
ErrorRecorded(r, m) ==
    \E i \in 1..Len(errors) :
        errors[i] \in {AgentName(r) \o ": " \o m, r \o ": " \o m}

\* C1: once chosen, mode_used is partial_sequential exactly when severity is
\* CRITICAL and system_confidence >= 0.75, and parallel otherwise, whatever
\* the roles did since.
C1_ModeIsFunctionOfInputs ==
    pc # "decide" =>
        /\ mode_used \in {"partial_sequential", "parallel"}
        /\ mode_used = "partial_sequential"
             <=> (severity = "CRITICAL" /\ system_confidence >= 75)

\* C1 witness: a finished staged run at the 0.75 boundary in which a role failed.
C1_Witness ==
    /\ pc = "returned"
    /\ severity = "CRITICAL" /\ system_confidence = 75
    /\ mode_used = "partial_sequential"
    /\ Len(errors) > 0

\* C2: in partial_sequential mode the Actions completion call has not started
\* while any of RootCause, Impact, Knowledge has not returned.
C2_ActionsAfterPhase1 ==
    (mode_used = "partial_sequential" /\ calls["actions"] > 0)
        => \A r \in Phase1Roles : status[r] = "done"

\* C2 witness: the Actions call is running after a Phase-1 role raised,
\* another returned None and the third returned text.
C2_Witness ==
    /\ mode_used = "partial_sequential"
    /\ status["actions"] = "running"
    /\ RaisedException("root_cause")
    /\ raw["impact"].kind = "none"
    /\ ReturnedText("knowledge")

\* C3: the orchestrator is past a phase's join only when every role of that
\* phase has completed, and the Consistency call has started only when all
\* four roles have completed.
C3_JoinBarrier ==
    /\ pc \notin {"decide", "dispatch", "gather"}
         => \A r \in InOrder(FuturesOrder) : status[r] = "done"
    /\ status["consistency"] # "idle"
         => \A r \in AnalysisRoles : status[r] = "done"

\* C3 witness: the Consistency call is running in the parallel plan after a
\* role raised.
C3_Witness ==
    /\ mode_used = "parallel"
    /\ status["consistency"] = "running"
    /\ RaisedException("actions")

\* C4 as claimed: when the run has ended, the Consistency call was issued
\* exactly once and every role that returned empty or raised has its
\* zero-value output and an entry in result.errors.
C4_Claim ==
    Terminated =>
        /\ calls["consistency"] = 1
        /\ \A r \in AnalysisRoles :
             (ReturnedEmpty(r) \/ RaisedException(r)) =>
                 /\ result[r] = ZeroOutput(r)
                 /\ ErrorRecorded(r, fut[r].err.msg)

\* C5 as claimed: no role's completion call is made twice, and when the run
\* has ended each of the five roles was called exactly once.
C5_Claim ==
    /\ \A r \in Roles : calls[r] <= 1
    /\ Terminated => \A r \in Roles : calls[r] = 1

\* C6 as claimed: an empty completion yields the zero-value output with the
\* error "empty response".
C6_Original ==
    \A r \in Roles :
        (status[r] = "done" /\ ReturnedEmpty(r)) =>
            /\ fut[r].out = ZeroOutput(r)
            /\ fut[r].err = Some("empty response")

\* C6 amended: an empty completion (None or "") yields the zero-value output
\* with the error "Empty response from LLM".
C6_EmptyResponse ==
    \A r \in Roles :
        (status[r] = "done" /\ ReturnedEmpty(r)) =>
            /\ ~fut[r].exc
            /\ fut[r].out = ZeroOutput(r)
            /\ fut[r].err = Some("Empty response from LLM")

\* C6 witness: one role's call returned "" and another's returned None.
C6_Witness ==
    /\ status["impact"] = "done" /\ raw["impact"] = RawEmpty
    /\ status["knowledge"] = "done" /\ raw["knowledge"] = RawNone

\* C7: when a role's completion call raises, _run_agent returns (name,
\* zero-value output, _, message) and nothing leaves it; the run is aborted
\* only by the consistency prompt builder, never by a role.
C7_ExceptionContained ==
    /\ \A r \in Roles :
         (status[r] = "done" /\ RaisedException(r)) =>
             fut[r] = [exc |-> FALSE, name |-> AgentName(r),
                       out |-> ZeroOutput(r), err |-> Some(raw[r].msg)]
    /\ pc = "raised" =>
         /\ \A r \in AnalysisRoles : status[r] = "done"
         /\ status["consistency"] = "idle"

\* C7 witness: a run returned although Impact's call raised, with the
\* sibling RootCause output parsed from its own text.
C7_Witness ==
    /\ pc = "returned"
    /\ RaisedException("impact") /\ raw["impact"].msg = "timeout"
    /\ ReturnedText("root_cause")
    /\ result["root_cause"] # ZeroOutput("root_cause")

\* C8 as claimed: when exactly one of the four roles got None and every other
\* call got non-empty text, the returned result has that role's zero-value
\* output, exactly one error entry, naming that role, and the three other
\* outputs as their parsers produce them.
C8_Claim ==
    \A f \in AnalysisRoles :
        (/\ pc = "returned"
         /\ raw[f].kind = "none"
         /\ \A r \in Roles \ {f} : ReturnedText(r))
        => /\ result[f] = ZeroOutput(f)
           /\ Len(errors) = 1
           /\ ErrorRecorded(f, fut[f].err.msg)
           /\ \A r \in AnalysisRoles \ {f} :
                /\ ~Parser(r, raw[r]).raised
                /\ result[r] = Parser(r, raw[r]).out

\* C9 as claimed: a run that has ended has returned a result with a mode and a
\* timing entry for each of the five roles.
C9_Claim ==
    Terminated =>
        /\ pc = "returned"
        /\ mode_used \in {"parallel", "partial_sequential"}
        /\ agent_times = Roles

\* C10 as claimed: run_multi_agent_v2 never raises to its caller.
C10_Claim == pc # "raised"

-----------------------------------------------------------------------------
(* Properties of the parsers (ParseSpec).                                  *)

Applied == parse_result # Pending

Returned == Applied /\ ~parse_result.raised

\* C11: each role parser, given the empty string, raises nothing and returns
\* the zero-value record of its type: empty strings and lists, confidence 0,
\* and "Unknown" as the Impact financial impact.
C11_EmptyTextGivesZeroValue ==
    (Applied /\ parse_text = RawEmpty) =>
        /\ ~parse_result.raised
        /\ parse_role = "root_cause" =>
              parse_result.out = [trigger |-> "", causal_chain |-> <<>>,
                                  confidence |-> 0, reasoning |-> "",
                                  identified_system |-> ""]
        /\ parse_role = "impact" =>
              parse_result.out = [affected_systems |-> <<>>, user_impact |-> "",
                                  estimated_duration |-> "",
                                  severity_justification |-> "",
                                  financial_impact |-> "Unknown",
                                  primary_system |-> ""]
        /\ parse_role = "actions" =>
              parse_result.out = [immediate |-> <<>>, short_term |-> <<>>,
                                  preventive |-> <<>>, rollback_plan |-> "",
                                  target_system |-> ""]
        /\ parse_role = "knowledge" =>
              /\ parse_result.out.suggested_system = JStr("")
              /\ parse_result.out.confidence = 0
              /\ parse_result.out.reasoning = JStr("")
              /\ parse_result.out.kb_sources_used = JNum(0)
              /\ \A k \in {"primary_contact", "best_runbook", "financial_context"} :
                    parse_result.out[k] = JDict("", "", "")
              /\ \A k \in {"backup_contacts", "alternative_runbooks", "similar_incidents"} :
                    parse_result.out[k] = JList(0)
        /\ parse_role = "consistency" =>
              parse_result.out = [factual_conflicts |-> <<>>,
                                  interpretation_conflicts |-> <<>>,
                                  agreements |-> <<>>, confidence |-> 0,
                                  quality_assessment |-> "",
                                  recommendation |-> ""]

C11_Witness == Returned /\ parse_text = RawEmpty /\ parse_role = "impact"

\* C12: every response parser is total: whatever the text, the JSON of a
\* Knowledge text decoding to values of unexpected types included, the parser
\* returns an output record and raises nothing.
C12_Claim == Applied => ~parse_result.raised

\* The list fields of each role's output.
ListFields(r) ==
    CASE r = "root_cause"  -> {"causal_chain"}
      [] r = "impact"      -> {"affected_systems"}
      [] r = "actions"     -> {"immediate", "short_term", "preventive"}
      [] r = "consistency" -> {"factual_conflicts", "interpretation_conflicts", "agreements"}
      [] OTHER             -> {}

ItemsOf(list) == {list[i] : i \in 1..Len(list)}

\* C13: in every list field of every parser's output no item is a placeholder
\* ("none", "n/a", "[empty if none]" in any case, with or without a bullet
\* before it in the text), also when the text mixes placeholders with valid
\* items, and every valid item of the text is kept.
C13_Claim ==
    Returned =>
        /\ \A f \in ListFields(parse_role) :
             \A x \in ItemsOf(parse_result.out[f]) :
                Upper(x) \notin {"NONE", "N/A", "[EMPTY IF NONE]"}
        /\ parse_text \in ChainTexts \cup AffectedTexts \cup ActionsListTexts
                          \cup ConsistencyListTexts =>
             \A i \in 1..Len(parse_text.body) :
                parse_text.body[i] \in ValidItems =>
                   \E f \in ListFields(parse_role) :
                      parse_text.body[i] \in ItemsOf(parse_result.out[f])

\* The values written after the CONFIDENCE: labels of a text, in order.
ConfidenceValues(t) ==
    LET at == SelectSeq([i \in 1..Len(t) |-> i], LAMBDA i :
                  /\ Upper(t[i]) = "CONFIDENCE"
                  /\ i + 1 <= Len(t) /\ t[i + 1] = Colon
                  /\ SkipWs(t, i + 2) <= Len(t))
    IN  [k \in 1..Len(at) |-> t[SkipWs(t, at[k] + 2)]]

\* A numeral of an integer in 0 .. 100, written without leading zeros
Numerals == {ToString(k) : k \in 0..100}

RECURSIVE AllDigits(_)
AllDigits(s) == s # "" /\ Head(s) \in Digits /\ (Len(s) = 1 \/ AllDigits(Tail(s)))

C15_Claim ==
    (Returned /\ parse_role = "knowledge") =>
        parse_result.out.confidence \in 0..100

\* The text has a "QUALITY ASSESSMENT:" with something after the colon.
HasQualityLabel(t) ==
    \E i \in 1..Len(t) :
        Upper(t[i]) = "QUALITY ASSESSMENT" /\ i + 2 <= Len(t) /\ t[i + 1] = Colon

\* The words on the line of the first QUALITY ASSESSMENT: label.
QualityLine(t) ==
    LET i == CHOOSE k \in 1..Len(t) :
                 /\ Upper(t[k]) = "QUALITY ASSESSMENT"
                 /\ \A m \in 1..(k - 1) : Upper(t[m]) # "QUALITY ASSESSMENT"
    IN  IF i + 2 > Len(t) \/ t[i + 2] = NL THEN <<>>
        ELSE SubSeq(t, i + 2, LineEnd(t, i + 2))

\* The tiers named on the quality line, <<>> when the text has no such line.
TiersNamed(t) ==
    IF \A i \in 1..Len(t) : Upper(t[i]) # "QUALITY ASSESSMENT" THEN {}
    ELSE {w \in {"HIGH", "MEDIUM", "LOW"} : w \in ItemsOf(QualityLine(t))}

\* C16 as stated: HIGH gives 90, MEDIUM 60, LOW 30, and a quality assessment
\* that names none of the three tiers, or is absent, gives 0.
C16_Original ==
    (Returned /\ parse_role = "consistency" /\ parse_text \in QualityTexts) =>
        LET c == parse_result.out.confidence
            tiers == TiersNamed(parse_text.body)
        IN  /\ tiers = {"HIGH"} => c = 90
            /\ tiers = {"MEDIUM"} => c = 60
            /\ tiers = {"LOW"} => c = 30
            /\ tiers = {} => c = 0

\* C16 (amended): the score follows from the text returned as
\* quality_assessment: 90 when it contains HIGH, else 60 when it contains
\* MEDIUM, else 30, in any case of the letters; it is 0 only when the text has
\* no "QUALITY ASSESSMENT:" with something after it. So confidence is one of
\* 0, 30, 60, 90.
C16_ScoreFromQualityText ==
    (Returned /\ parse_role = "consistency" /\ ~parse_text.empty) =>
        LET c == parse_result.out.confidence
            q == Upper(parse_result.out.quality_assessment)
        IN  /\ c \in {0, 30, 60, 90}
            /\ IF HasQualityLabel(parse_text.body)
               THEN c = IF Contains(q, "HIGH") THEN 90
                        ELSE IF Contains(q, "MEDIUM") THEN 60
                        ELSE 30
               ELSE c = 0 /\ q = ""

C16_Witness ==
    /\ Returned
    /\ parse_role = "consistency"
    /\ parse_result.out.quality_assessment = "UNSURE"
    /\ parse_result.out.confidence = 30

\* C17: a perfect-agreement text (both conflict headers with nothing under
\* them, a non-empty AGREEMENTS list, quality HIGH) parses to confidence 90,
\* empty factual_conflicts, empty interpretation_conflicts, and agreements
\* equal to the listed items.
C17_Claim ==
    (Returned /\ parse_role = "consistency") =>
        \A items \in AgreementLists, gap \in SectionGaps, q \in QualityHigh :
            parse_text = RawText(PerfectAgreement(items, gap, q)) =>
                /\ parse_result.out.confidence = 90
                /\ parse_result.out.factual_conflicts = <<>>
                /\ parse_result.out.interpretation_conflicts = <<>>
                /\ parse_result.out.agreements =
                       [i \in 1..Len(items) |-> Render(items[i])]

\* A decimal numeral: digits with at most one point among them.
RECURSIVE DigitsOrPoint(_)
DigitsOrPoint(s) ==
    s # "" /\ (Head(s) \in Digits \/ Head(s) = ".") /\ (Len(s) = 1 \/ DigitsOrPoint(Tail(s)))

\* The label layout "SUGGESTED SYSTEM: <sys>\nCONFIDENCE: <v>" with v a
\* decimal numeral.
IsLabelLayout(labels) ==
    /\ Len(labels) = 7
    /\ SubSeq(labels, 1, 2) = <<"SUGGESTED SYSTEM", Colon>>
    /\ SubSeq(labels, 4, 6) = <<NL, "CONFIDENCE", Colon>>
    /\ DigitsOrPoint(labels[7]) /\ StrToFloat(labels[7]).ok

\* C18: when the JSON path of parse_knowledge fails (the text holds no JSON
\* object, or the {...} span does not decode), suggested_system and confidence
\* are taken from the SUGGESTED SYSTEM: and CONFIDENCE: labels, and no error
\* leaves the parser.
C18_Claim ==
    (Applied /\ parse_role = "knowledge" /\ ~parse_text.empty) =>
        LET b == parse_text.body
        IN  (b.json \in {"none", "bad"} /\ IsLabelLayout(b.labels)) =>
                /\ ~parse_result.raised
                /\ parse_result.out.suggested_system = JStr(b.labels[3])
                /\ parse_result.out.confidence = StrToFloat(b.labels[7]).val

-----------------------------------------------------------------------------
(* Properties of the orchestrator that rest on the parsers (Spec).         *)

\* result.errors has an entry for role r, under either label the plans use.
HasErrorEntry(r) ==
    \E i \in 1..Len(errors) :
        \/ StartsWith(errors[i], AgentName(r) \o ": ")
        \/ StartsWith(errors[i], r \o ": ")

\* C19: unparseable output is never recorded as an error: in a returned
\* result, a role whose completion call returned non-empty text has no entry
\* in result.errors, and a role has an entry only when its call returned
\* empty or raised.
C19_Claim ==
    pc = "returned" =>
        \A r \in Roles :
            /\ ReturnedText(r) => ~HasErrorEntry(r)
            /\ HasErrorEntry(r) => (ReturnedEmpty(r) \/ RaisedException(r))

\* The three analysis outputs name the same system.
SameSystem ==
    /\ result.root_cause.identified_system # ""
    /\ result.impact.primary_system = result.root_cause.identified_system
    /\ result.actions.target_system = result.root_cause.identified_system

\* An entry saying that two agents name different systems.
SystemDisagreement(s) == Contains(s, "names Server_")

\* End-to-end scenario 1: CRITICAL at 0.90, the three agents on Server_A.
Scenario1 ==
    /\ severity = "CRITICAL" /\ system_confidence = 90
    /\ SameSystem /\ result.root_cause.identified_system = "Server_A"

\* The reply's FACTUAL CONFLICTS header is directly followed by the
\* INTERPRETATION CONFLICTS header.
EmptyFactualSection(t) ==
    /\ Len(t) >= 5
    /\ SubSeq(t, 1, 5) = <<"FACTUAL CONFLICTS", Colon, NL, "INTERPRETATION CONFLICTS", Colon>>

\* C20 as stated: when the three analysis outputs carry identical system
\* fields, factual_conflicts has no system-identity disagreement entry, and in
\* scenario 1 it is empty.
C20_Original ==
    (pc = "returned" /\ SameSystem) =>
        LET fc == result.consistency.factual_conflicts
        IN  /\ \A i \in 1..Len(fc) : ~SystemDisagreement(fc[i])
            /\ Scenario1 => fc = <<>>

\* C20 (amended): run_multi_agent_v2 compares no system fields itself; with
\* identical system fields, factual_conflicts has a system-identity entry only
\* when the Consistency reply contains one, and in scenario 1 with a reply
\* whose FACTUAL CONFLICTS section is empty the mode is partial_sequential and
\* factual_conflicts is empty.
C20_ConflictsComeFromReply ==
    (pc = "returned" /\ SameSystem) =>
        LET fc == result.consistency.factual_conflicts
            reply == raw["consistency"]
        IN  /\ \A i \in 1..Len(fc) :
                   SystemDisagreement(fc[i]) =>
                       /\ ReturnedText("consistency")
                       /\ \E k \in 1..Len(reply.body) : SystemDisagreement(reply.body[k])
            /\ (Scenario1 /\ ReturnedText("consistency")
                          /\ EmptyFactualSection(reply.body)) =>
                   /\ mode_used = "partial_sequential"
                   /\ fc = <<>>

C20_Witness ==
    /\ pc = "returned"
    /\ Scenario1
    /\ ReturnedText("consistency")
    /\ EmptyFactualSection(raw["consistency"].body)
    /\ result.consistency.agreements # <<>>
    /\ result.consistency.factual_conflicts = <<>>

\* What run_multi_agent_v2 returns for given responses of the five roles,
\* computed role by role in the order the code unpacks them.
ExpectedTuple(r) == AgentResult[r][raw[r]]

ExpectedErrors ==
    LET analysis ==
            IF mode_used = "partial_sequential"
            THEN AppendError(AppendError(AppendError(AppendError(<<>>,
                     "RootCause", ExpectedTuple("root_cause").err),
                     "Impact", ExpectedTuple("impact").err),
                     "Knowledge", ExpectedTuple("knowledge").err),
                     "Actions", ExpectedTuple("actions").err)
            ELSE AppendError(AppendError(AppendError(AppendError(<<>>,
                     "root_cause", ExpectedTuple("root_cause").err),
                     "impact", ExpectedTuple("impact").err),
                     "actions", ExpectedTuple("actions").err),
                     "knowledge", ExpectedTuple("knowledge").err)
    IN  AppendError(analysis, "Consistency", ExpectedTuple("consistency").err)

\* C22: the returned result does not depend on the order in which the workers
\* of a phase complete: whatever the interleaving, the outputs, the keys of
\* agent_times and the list result.errors, in its order, are those determined
\* by the mode and by each role's completion response.
C22_OrderIndependent ==
    pc = "returned" =>
        /\ \A r \in Roles : result[r] = ExpectedTuple(r).out
        /\ agent_times = Roles
        /\ errors = ExpectedErrors

\* C22 witness: in the parallel plan RootCause raised and Knowledge returned
\* nothing, and the two errors are in the order of the futures dict.
C22_Witness ==
    /\ pc = "returned"
    /\ mode_used = "parallel"
    /\ Len(errors) >= 2
    /\ errors[1] = "root_cause: timeout"
    /\ errors[2] = "knowledge: Empty response from LLM"

\* A worker is between its submission and its return.
InFlight(r) == status[r] \in {"submitted", "running"}

\* C23: no worker writes the result: a step of a worker leaves outputs,
\* agent_times and errors unchanged, and every write to them is made by the
\* orchestrating thread when no submitted task is still unfinished, that is
\* after the join of the phase.
C23_WritesAfterJoin ==
    [][/\ (status' # status /\ pc' = pc) =>
              UNCHANGED <<result, agent_times, errors>>
       /\ (<<result, agent_times, errors>>' # <<result, agent_times, errors>>) =>
              \A r \in Roles : ~InFlight(r)]_vars

\* C23 witness: one worker of the phase has returned, another is still
\* running, and nothing has been written to the result.
C23_Witness ==
    /\ pc = "gather"
    /\ status["impact"] = "done" /\ fut["impact"].err = Some("timeout")
    /\ status["root_cause"] = "running"
    /\ result = MultiAgentResult /\ errors = <<>> /\ agent_times = {}

\* The digest handed to build_actions_prompt holds the text s ("" when the
\* digest is None).
DigestHas(s) == agent_context.some /\ Contains(agent_context.msg, s)

\* The digest has been built: the staged plan is past its first phase.
DigestBuilt == mode_used = "partial_sequential" /\ pc = "phase2"

\* The lines of the digest, one per finding.
TriggerLine == "Root Cause: " \o result.root_cause.trigger
ChainLine == "Chain: " \o Join(" -> ", result.root_cause.causal_chain)
ImpactLine == "Impact: " \o result.impact.user_impact
AffectedLine == "Affected: " \o Join(", ", result.impact.affected_systems)
KbLine ==
    "KB Suggests: " \o JRender(result.knowledge.suggested_system)
    \o " (confidence: " \o Percent(result.knowledge.confidence) \o ")"

\* C24 as stated: every non-empty Phase-1 finding is in the digest, whatever
\* the other findings are.
C24_Original ==
    DigestBuilt =>
        /\ result.root_cause.trigger # "" => DigestHas(TriggerLine)
        /\ result.root_cause.causal_chain # <<>> => DigestHas(ChainLine)
        /\ result.impact.user_impact # "" => DigestHas(ImpactLine)
        /\ result.impact.affected_systems # <<>> => DigestHas(AffectedLine)
        /\ JTruthy(result.knowledge.suggested_system) => DigestHas(KbLine)

\* C24 (amended): the digest holds the trigger, the user impact, the affected
\* systems and the knowledge suggestion with its confidence exactly when each
\* is non-empty, independently of the others; the causal chain is in it
\* exactly when both the chain and the trigger are non-empty.
C24_DigestFindings ==
    DigestBuilt =>
        /\ result.root_cause.trigger # "" <=> DigestHas("Root Cause: ")
        /\ result.root_cause.trigger # "" => DigestHas(TriggerLine)
        /\ (result.root_cause.trigger # "" /\ result.root_cause.causal_chain # <<>>)
               <=> DigestHas("Chain: ")
        /\ DigestHas("Chain: ") => DigestHas(ChainLine)
        /\ result.impact.user_impact # "" <=> DigestHas("Impact: ")
        /\ result.impact.user_impact # "" => DigestHas(ImpactLine)
        /\ result.impact.affected_systems # <<>> <=> DigestHas("Affected: ")
        /\ result.impact.affected_systems # <<>> => DigestHas(AffectedLine)
        /\ JTruthy(result.knowledge.suggested_system) <=> DigestHas("KB Suggests: ")
        /\ JTruthy(result.knowledge.suggested_system) => DigestHas(KbLine)

\* C24 witness: a chain without a trigger is left out while the affected
\* systems, without a user impact, and the knowledge suggestion are in.
C24_Witness ==
    /\ DigestBuilt
    /\ result.root_cause.trigger = "" /\ result.root_cause.causal_chain # <<>>
    /\ result.impact.user_impact = "" /\ result.impact.affected_systems # <<>>
    /\ agent_context = Some("KB Suggests: Server_A (confidence: 80%)\nAffected: Server_C")

\* C25: each list parsed by _extract_numbered_or_bulleted_list holds exactly
\* the items written under its own label: a section with nothing under its
\* header is empty although later sections have items, no item of another
\* section is in it, and no item is cut short or dropped because it mentions
\* the words of another label.
C25_Claim ==
    Returned =>
        /\ parse_role = "actions" =>
             \A short \in ActionItems, prev \in ActionItems :
                 parse_text = RawText(ActionsSections(short, prev)) =>
                     /\ parse_result.out.immediate = <<>>
                     /\ parse_result.out.short_term = <<Render(short)>>
                     /\ parse_result.out.preventive = <<Render(prev)>>
        /\ parse_role = "consistency" =>
             \A items \in AgreementLists, gap \in SectionGaps, q \in QualityHigh :
                 parse_text = RawText(PerfectAgreement(items, gap, q)) =>
                     /\ parse_result.out.factual_conflicts = <<>>
                     /\ parse_result.out.interpretation_conflicts = <<>>
                     /\ Len(parse_result.out.agreements) = Len(items)
                     /\ \A i \in 1..Len(items) :
                            parse_result.out.agreements[i] = Render(items[i])

\* The field that the scalar label fills is empty in out.
ScalarFieldEmpty(out, label) ==
    CASE label = "SYSTEM"             -> out.identified_system = ""
      [] label = "TRIGGER"            -> out.trigger = ""
      [] label = "CHAIN"              -> out.causal_chain = <<>>
      [] label = "CONFIDENCE"         -> out.confidence = 0
      [] label = "REASONING"          -> out.reasoning = ""
      [] label = "PRIMARY SYSTEM"     -> out.primary_system = ""
      [] label = "ESTIMATED DURATION" -> out.estimated_duration = ""
      [] label = "FINANCIAL IMPACT"   -> out.financial_impact \in {"", "Unknown"}
      [] label = "TARGET SYSTEM"      -> out.target_system = ""
      [] label = "ROLLBACK PLAN"      -> out.rollback_plan = ""

\* C26: a scalar label with no content before the next label parses as
\* empty; the field never takes the following label's line as its value.
C26_Claim ==
    Returned =>
        \A l \in ScalarLabels(parse_role) : \A n \in ScalarLabels(parse_role) \ {l} :
            parse_text = RawText(EmptyLabel(l, n)) =>
                ScalarFieldEmpty(parse_result.out, l)

\* The role label of the entry that a plan records for role r: the staged
\* plan writes the executor's name, the parallel plan the key of the futures
\* dict; Consistency is recorded after both plans.
ErrorLabel(mode, r) ==
    IF r = "consistency" \/ mode = "partial_sequential" THEN AgentName(r) ELSE r

\* result.errors holds the entry label: m.
RecordedAs(label, m) == \E i \in 1..Len(errors) : errors[i] = label \o ": " \o m

\* C27: a failed role is recorded as "<role>: <message>" with the same role
\* label in both plans: the entry of a returned result is the very string
\* that the other plan records for the same role and message.
C27_Claim ==
    pc = "returned" =>
        \A r \in Roles :
            Truthy(fut[r].err) =>
                /\ RecordedAs(ErrorLabel("parallel", r), fut[r].err.msg)
                /\ RecordedAs(ErrorLabel("partial_sequential", r), fut[r].err.msg)

-----------------------------------------------------------------------------
(* src/sanitizer.py. A log text is a sequence of pieces: a word (kind       *)
(* "tok", its characters in s), a run of n characters "#" that belong to no *)
(* pattern (kind "fill"), or one line break (kind "nl"). Words never touch: *)
(* a fill or a line break stands between two of them, so \b holds at both   *)
(* ends of every word. Positions and lengths count characters.              *)

Tok(s) == [k |-> "tok", s |-> s, n |-> Len(s)]
Fill(n) == [k |-> "fill", s |-> "", n |-> n]
Newline == [k |-> "nl", s |-> "", n |-> 1]

\* len(text)
RECURSIVE TextLen(_)
TextLen(t) == IF t = <<>> THEN 0 ELSE Head(t).n + TextLen(Tail(t))

\* the same characters written with the fewest pieces
RECURSIVE Norm(_)
Norm(t) ==
    IF t = <<>> THEN <<>>
    ELSE IF Head(t).n = 0 THEN Norm(Tail(t))
    ELSE LET rest == Norm(Tail(t))
         IN  IF rest # <<>> /\ Head(t).k = "fill" /\ Head(rest).k = "fill"
                 THEN <<Fill(Head(t).n + Head(rest).n)>> \o Tail(rest)
             ELSE IF rest # <<>> /\ Head(t).k = "tok" /\ Head(rest).k = "tok"
                 THEN <<Tok(Head(t).s \o Head(rest).s)>> \o Tail(rest)
             ELSE <<Head(t)>> \o rest

\* the first m characters of piece p, 0 < m < p.n
CutLeft(p, m) == IF p.k = "tok" THEN Tok(SubSeq(p.s, 1, m)) ELSE Fill(m)

\* piece p without its first m characters, 0 < m < p.n
CutRight(p, m) == IF p.k = "tok" THEN Tok(SubSeq(p.s, m + 1, p.n)) ELSE Fill(p.n - m)

\* text[:b]
RECURSIVE TextTo(_, _)
TextTo(t, b) ==
    IF t = <<>> \/ b <= 0 THEN <<>>
    ELSE IF Head(t).n <= b THEN <<Head(t)>> \o TextTo(Tail(t), b - Head(t).n)
    ELSE <<CutLeft(Head(t), b)>>

\* text[a:]
RECURSIVE TextFrom(_, _)
TextFrom(t, a) ==
    IF t = <<>> THEN <<>>
    ELSE IF a <= 0 THEN t
    ELSE IF Head(t).n <= a THEN TextFrom(Tail(t), a - Head(t).n)
    ELSE <<CutRight(Head(t), a)>> \o Tail(t)

\* text[a:b]
Slice(t, a, b) == TextFrom(TextTo(t, b), a)

\* a + b of two texts
Cat(a, b) == Norm(a \o b)

\* the position of piece i of t
RECURSIVE Offset(_, _)
Offset(t, i) == IF i <= 1 THEN 0 ELSE Offset(t, i - 1) + t[i - 1].n

\* the positions of the line breaks of t
NewlinePositions(t) == {Offset(t, i) : i \in {j \in 1..Len(t) : t[j].k = "nl"}}

\* text.rfind('\n', lo, hi)
Rfind(t, lo, hi) ==
    LET found == {p \in NewlinePositions(t) : lo <= p /\ p < hi}
    IN  IF found = {} THEN -1 ELSE CHOOSE p \in found : \A q \in found : q <= p

\* text.strip(): the only white space is the line break
RECURSIVE TextLStrip(_)
TextLStrip(t) == IF t # <<>> /\ Head(t).k = "nl" THEN TextLStrip(Tail(t)) ELSE t

RECURSIVE TextRStrip(_)
TextRStrip(t) ==
    IF t # <<>> /\ t[Len(t)].k = "nl" THEN TextRStrip(SubSeq(t, 1, Len(t) - 1)) ELSE t

TextStrip(t) == TextRStrip(TextLStrip(t))

-----------------------------------------------------------------------------
(* Layer 1: RegexSanitizer. Each pattern is matched against a whole word.   *)

REPLACEMENT_MAP(pattern_type) ==
    CASE pattern_type = "ssn" -> "[REDACTED_SSN]"
      [] pattern_type = "card_number" -> "[REDACTED_CARD]"
      [] pattern_type = "email" -> "[REDACTED_EMAIL]"
      [] pattern_type = "ip_address" -> "[REDACTED_IP]"
      [] pattern_type = "phone_ext" -> "[REDACTED_PHONE]"
      [] pattern_type = "name" -> "[REDACTED_NAME]"

\* the pattern types of PATTERNS, in order
PATTERNS == <<"ssn", "card_number", "email", "ip_address", "phone_ext">>

\* \d{lo,hi} matches all of s
DigitRun(s, lo, hi) == Len(s) >= lo /\ Len(s) <= hi /\ AllDigits(s)

\* \d{3}-\d{2}-\d{4}
IsSsn(s) ==
    /\ Len(s) = 11
    /\ DigitRun(SubSeq(s, 1, 3), 3, 3) /\ CharAt(s, 4) = "-"
    /\ DigitRun(SubSeq(s, 5, 6), 2, 2) /\ CharAt(s, 7) = "-"
    /\ DigitRun(SubSeq(s, 8, 11), 4, 4)

\* s after \d{4}[\s-]? has matched at its start; "!" when it does not match
AfterGroup(s) ==
    IF Len(s) < 4 \/ ~AllDigits(SubSeq(s, 1, 4)) THEN "!"
    ELSE IF Len(s) > 4 /\ CharAt(s, 5) = "-" THEN SubSeq(s, 6, Len(s))
    ELSE SubSeq(s, 5, Len(s))

\* \d{4}[\s-]?\d{4}[\s-]?\d{4}[\s-]?\d{1,7}
IsCard(s) ==
    LET a == AfterGroup(s)
        b == IF a = "!" THEN "!" ELSE AfterGroup(a)
        c == IF b = "!" THEN "!" ELSE AfterGroup(b)
    IN  c # "!" /\ DigitRun(c, 1, 7)

EmailLocalChars == Digits \cup UpperLetters \cup LowerLetters \cup {".", "_", "%", "+", "-"}
EmailDomainChars == Digits \cup UpperLetters \cup LowerLetters \cup {".", "-"}

\* every character of s is in set
RECURSIVE AllIn(_, _)
AllIn(s, set) == s = "" \/ (Head(s) \in set /\ AllIn(Tail(s), set))

\* s.rfind(c) + 1
RECURSIVE LastIndex(_, _)
LastIndex(s, c) ==
    IF s = "" THEN 0
    ELSE IF CharAt(s, Len(s)) = c THEN Len(s)
    ELSE LastIndex(SubSeq(s, 1, Len(s) - 1), c)

\* [a-zA-Z0-9._%+-]+@[a-zA-Z0-9.-]+\.[a-zA-Z]{2,}
IsEmail(s) ==
    LET at == IndexFrom(s, "@", 1)
        domain == SubSeq(s, at + 1, Len(s))
        dot == LastIndex(domain, ".")
    IN  /\ at > 1
        /\ AllIn(SubSeq(s, 1, at - 1), EmailLocalChars)
        /\ dot > 1
        /\ AllIn(SubSeq(domain, 1, dot - 1), EmailDomainChars)
        /\ Len(domain) - dot >= 2
        /\ AllIn(SubSeq(domain, dot + 1, Len(domain)), UpperLetters \cup LowerLetters)

\* s.split(c) for a one-character c
RECURSIVE SplitOn(_, _)
SplitOn(s, c) ==
    LET i == IndexFrom(s, c, 1)
    IN  IF i = 0 THEN <<s>>
        ELSE <<SubSeq(s, 1, i - 1)>> \o SplitOn(SubSeq(s, i + 1, Len(s)), c)

\* (?:\d{1,3}\.){3}\d{1,3}
IsDottedQuad(s) ==
    LET octets == SplitOn(s, ".")
    IN  Len(octets) = 4 /\ \A i \in 1..4 : DigitRun(octets[i], 1, 3)

_is_valid_ip(candidate) ==
    LET octets == SplitOn(candidate, ".")
    IN  /\ Len(octets) = 4
        /\ \A i \in 1..4 : octets[i] # "" /\ AllDigits(octets[i])
                           /\ ToInt(octets[i], 0) <= 255

\* ext\.?\s*\d{3,5} under re.IGNORECASE
IsPhoneExt(s) ==
    /\ Len(s) > 3 /\ Upper(SubSeq(s, 1, 3)) = "EXT"
    /\ LET rest == SubSeq(s, 4, Len(s))
       IN  DigitRun(IF Head(rest) = "." THEN Tail(rest) ELSE rest, 3, 5)

\* the words that make a dotted number a version number
ContextWords == {"version", "postgresql", "mysql", "redis", "nginx", "python"}

\* the 40 characters before position start name a product or a version
VersionContext(t, start) ==
    LET context == Slice(t, IF start - 40 > 0 THEN start - 40 ELSE 0, start)
    IN  \E i \in 1..Len(context), w \in ContextWords :
            context[i].k = "tok" /\ Contains(Upper(context[i].s), Upper(w))

\* the regex of pattern_type matches the word at piece i of t; for pattern_type
\* "name" the regex is \b + re.escape(name) + \b under re.IGNORECASE, and no
\* word of a text holds a known name as a part of it
Found(pattern_type, name, t, i) ==
    /\ t[i].k = "tok"
    /\ CASE pattern_type = "ssn" -> IsSsn(t[i].s)
         [] pattern_type = "card_number" -> IsCard(t[i].s)
         [] pattern_type = "email" -> IsEmail(t[i].s)
         [] pattern_type = "ip_address" -> IsDottedQuad(t[i].s)
         [] pattern_type = "phone_ext" -> IsPhoneExt(t[i].s)
         [] pattern_type = "name" -> Upper(t[i].s) = Upper(name)

\* the match at piece i is audited and replaced
Redacted(pattern_type, name, t, i) ==
    /\ Found(pattern_type, name, t, i)
    /\ pattern_type = "ip_address" =>
           _is_valid_ip(t[i].s) /\ ~VersionContext(t, Offset(t, i))

SanitizationAudit(layer, pattern_type, original, replacement, position) ==
    [layer |-> layer, pattern_type |-> pattern_type, original |-> original,
     replacement |-> replacement, position |-> position]

\* the audit pass of one pattern (a known name is its own pattern), from piece i on
RECURSIVE AuditPass(_, _, _, _)
AuditPass(pattern_type, name, t, i) ==
    IF i > Len(t) THEN <<>>
    ELSE (IF Redacted(pattern_type, name, t, i)
              THEN <<SanitizationAudit("regex", pattern_type, t[i].s,
                                       REPLACEMENT_MAP(pattern_type), Offset(t, i))>>
              ELSE <<>>) \o AuditPass(pattern_type, name, t, i + 1)

\* the replacement pass of one pattern
ReplacePass(pattern_type, name, t) ==
    [i \in 1..Len(t) |-> IF Redacted(pattern_type, name, t, i)
                             THEN Tok(REPLACEMENT_MAP(pattern_type)) ELSE t[i]]

\* sorted(known_names, key=len, reverse=True)
RECURSIVE LongestFirst(_)
LongestFirst(names) ==
    IF names = {} THEN <<>>
    ELSE LET n == CHOOSE x \in names : \A y \in names : Len(y) <= Len(x)
         IN  <<n>> \o LongestFirst(names \ {n})

\* the loops of RegexSanitizer.sanitize: names first, then PATTERNS in order
RECURSIVE RegexPasses(_, _, _, _)
RegexPasses(names, patterns, t, audit) ==
    IF names # <<>>
        THEN RegexPasses(Tail(names), patterns, ReplacePass("name", Head(names), t),
                         audit \o AuditPass("name", Head(names), t, 1))
    ELSE IF patterns # <<>>
        THEN RegexPasses(names, Tail(patterns), ReplacePass(Head(patterns), "", t),
                         audit \o AuditPass(Head(patterns), "", t, 1))
    ELSE [text |-> t, audit |-> audit]

\* Layer 1 that stops after the known names
RegexSanitizer_sanitize_NamesOnly(known_names, text) ==
    RegexPasses(LongestFirst(known_names), <<>>, text, <<>>)

RegexSanitizer_sanitize(known_names, text) ==
    RegexPasses(LongestFirst(known_names), PATTERNS, text, <<>>)

-----------------------------------------------------------------------------
(* Layer 2: LLMSanitizer.                                                   *)

MAX_CHUNK_SIZE == 3000
OVERLAP == 200
MAX_TOTAL_TIME == 60

\* how far _chunk_text looks back for a line break
NewlineLookback == 500

\* one chunk of _chunk_text: (start_position, chunk_text)
Chunk(start, text) == [start |-> start, text |-> text]

\* where the chunk ends in the text it was cut from
ChunkEnd(c) == c.start + TextLen(c.text)

\* the end of the chunk that starts at start, before the line-break adjustment
WindowEnd(t, start) == Min(start + MAX_CHUNK_SIZE, TextLen(t))

\* _chunk_text that cuts at any line break of the window
ChunkEndFrom_AnyNewline(t, start) ==
    LET end == WindowEnd(t, start)
        newline_pos == Rfind(t, start, end)
    IN  IF end < TextLen(t) /\ newline_pos >= start THEN newline_pos + 1 ELSE end

\* the end of the chunk that starts at start
ChunkEndFrom(t, start) ==
    LET end == WindowEnd(t, start)
        newline_pos == Rfind(t, end - NewlineLookback, end)
    IN  IF end < TextLen(t) /\ newline_pos > start THEN newline_pos + 1 ELSE end

\* start of the next iteration
NextStart(t, end) == IF end < TextLen(t) THEN end - OVERLAP ELSE end

\* str.strip() of a one-line string, then the test against 'none'
IsNone(s) == Upper(s) = "NONE"

\* the filter of the semicolon branch of _parse_findings
KeepSemicolonItem(item) ==
    /\ item # "" /\ ~IsNone(item)
    /\ ~StartsWith(item, "-")
    /\ Len(item) > 2

\* the filter of the comma branch of _parse_findings
KeepCommaItem(item) == item # "" /\ ~IsNone(item) /\ Len(item) > 2

RECURSIVE FilterItems(_, _)
FilterItems(items, semicolon) ==
    IF items = <<>> THEN <<>>
    ELSE LET item == Strip(Head(items))
             keep == IF semicolon THEN KeepSemicolonItem(item) ELSE KeepCommaItem(item)
         IN  (IF keep THEN <<item>> ELSE <<>>) \o FilterItems(Tail(items), semicolon)

_parse_findings(findings_raw) ==
    LET findings_text == Strip(findings_raw)
    IN  IF IsNone(findings_text) THEN <<>>
        ELSE IF Contains(findings_text, ";")
            THEN FilterItems(SplitOn(findings_text, ";"), TRUE)
        ELSE IF Contains(findings_text, ",")
            THEN FilterItems(SplitOn(findings_text, ","), FALSE)
        ELSE IF findings_text # "" /\ Len(findings_text) > 2 THEN <<findings_text>>
        ELSE <<>>

\* What the local model wrote: the text before the FINDINGS: label, whether
\* the label is there, and what follows it. No log text holds the label.
Reply(text, marker, findings_raw) ==
    RawText([text |-> text, marker |-> marker, findings_raw |-> findings_raw])

\* _sanitize_chunk for a call of self.ollama that returned reply
_sanitize_chunk(chunk, reply) ==
    IF Falsy(reply) THEN [sanitized |-> chunk, findings |-> <<>>, timeout |-> TRUE]
    ELSE IF reply.body.marker
        THEN [sanitized |-> TextStrip(reply.body.text),
              findings |-> _parse_findings(Strip(reply.body.findings_raw)),
              timeout |-> FALSE]
    ELSE [sanitized |-> TextStrip(reply.body.text), findings |-> <<>>, timeout |-> FALSE]

\* list(dict.fromkeys(all_findings))
RECURSIVE Unique(_, _)
Unique(items, seen) ==
    IF items = <<>> THEN <<>>
    ELSE IF Head(items) \in seen THEN Unique(Tail(items), seen)
    ELSE <<Head(items)>> \o Unique(Tail(items), seen \cup {Head(items)})

\* the reassembly that keeps the overlap of every chunk
RECURSIVE Reassembled_KeepOverlap(_)
Reassembled_KeepOverlap(cs) ==
    IF cs = <<>> THEN <<>> ELSE Cat(Head(cs), Reassembled_KeepOverlap(Tail(cs)))

\* final_text for the chunks after the first
RECURSIVE SkipOverlaps(_)
SkipOverlaps(cs) ==
    IF cs = <<>> THEN <<>>
    ELSE Cat(TextFrom(Head(cs), OVERLAP), SkipOverlaps(Tail(cs)))

\* final_text of a non-empty sanitized_chunks
Reassembled(cs) == Cat(cs[1], SkipOverlaps(Tail(cs)))

-----------------------------------------------------------------------------
(* The pipeline.                                                            *)

SanitizationResult(sanitized_text, was_sanitized, audit_trail, llm_findings, skipped, error, regex_sanitized_text) ==
    [sanitized_text |-> sanitized_text, was_sanitized |-> was_sanitized,
     audit_trail |-> audit_trail, llm_findings |-> llm_findings,
     skipped |-> skipped, error |-> error,
     regex_sanitized_text |-> regex_sanitized_text]

\* self.skip that takes every local-sounding backend for Ollama
Skip_AnyCase(backend) == Upper(backend) = "OLLAMA"

\* self.skip
Skip(backend) == backend = "ollama"

\* the names an LLM finds that Layer 1 was not told of
LlmNames == {"Carol"}

\* the chunk as a model that redacts well returns it
LlmRedact(chunk) ==
    [i \in 1..Len(chunk) |->
        IF chunk[i].k = "tok" /\ chunk[i].s \in LlmNames
            THEN Tok("[REDACTED_NAME]") ELSE chunk[i]]

\* what such a model writes after FINDINGS:
FindingsFor(chunk) ==
    IF \E i \in 1..Len(chunk) : chunk[i].k = "tok" /\ chunk[i].s \in LlmNames
        THEN " Carol; ext 7741; -; none" ELSE " None"

\* what self.ollama does with a prompt for chunk
OllamaKinds == {"none", "empty", "raise", "echo", "redact"}

Ollama(kind, chunk) ==
    CASE kind = "none" -> RawNone
      [] kind = "empty" -> RawEmpty
      [] kind = "raise" -> RawRaise("connection reset")
      [] kind = "echo" -> Reply(chunk \o <<Newline>>, FALSE, "")
      [] kind = "redact" -> Reply(LlmRedact(chunk) \o <<Newline>>, TRUE, FindingsFor(chunk))

\* seconds one call of self.ollama takes: it answers at once or runs into the
\* 30 s timeout of create_ollama_sanitizer_callable
CallSeconds == {1, 31}

-----------------------------------------------------------------------------
(* The texts that are sanitized.                                            *)

\* Employee names handed to RegexSanitizer
KnownNames == {"alice", "bo"}

\* Number of blocks a sanitized text is put together from
MaxBlocks == 2

\* Blocks of a log: names, an e-mail address, addresses after a version word
\* and far from it, an address that is none, numbers, long runs of plain text
SanBlocks ==
    { <<Tok("Alice"), Fill(1), Tok("bob@corp.io"), Newline>>,
      <<Tok("version"), Fill(2), Tok("10.0.0.7"), Fill(40), Tok("10.0.0.7"), Fill(1),
        Tok("300.1.1.1"), Newline>>,
      <<Fill(2999), Newline>>,
      <<Tok("Carol"), Fill(1700), Newline, Tok("ext4410"), Fill(1287)>>,
      <<Newline, Tok("123-45-6789"), Fill(1), Tok("4111-1111-1111-1111"), Newline>> }

\* Blocks for _chunk_text alone: line breaks near to and far from the cuts
ChunkBlocks ==
    { <<Fill(2400), Newline>>, <<Fill(99), Newline>>, <<Fill(2999)>>,
      <<Fill(500), Newline>>, <<Newline>>, <<Tok("bob@corp.io")>>,
      <<Fill(2700), Newline, Fill(250)>>, <<Fill(199), Newline>> }

\* seq[1] + seq[2] + ... of a sequence of texts
RECURSIVE CatAll(_)
CatAll(seq) == IF seq = <<>> THEN <<>> ELSE Cat(Head(seq), CatAll(Tail(seq)))

SanTexts == {CatAll(bs) : bs \in SeqsUpTo(SanBlocks, MaxBlocks)}

ChunkTexts == {CatAll(bs) : bs \in SeqsUpTo(ChunkBlocks, MaxBlocks + 1)}

BackendTypes == {"ollama", "groq", "claude"}

\* run_multi_agent_v2 is not under way
OrchIdle ==
    /\ severity = "INFO"
    /\ system_confidence = 0
    /\ Entered

\* the working variables of LLMSanitizer, before it is called
LayersIdle ==
    /\ regex_out = Pending
    /\ chunk_start = 0
    /\ chunks = <<>>
    /\ chunk_i = 0
    /\ elapsed_total = 0
    /\ sanitized_chunks = <<>>
    /\ all_findings = <<>>
    /\ timeout_flags = <<>>
    /\ llm_out = Pending
    /\ san_result = Pending

\* SanitizationPipeline(backend_type, known_names, ollama_callable).sanitize(text)
\* or LLMSanitizer(ollama).sanitize(text) is called
SanInit ==
    /\ OrchIdle
    /\ ParseIdle
    /\ GroqIdle
    /\ LayersIdle
    /\ \/ /\ san_call = "SanitizationPipeline.sanitize"
          /\ backend_type \in BackendTypes
          /\ has_callable \in BOOLEAN
          /\ san_text \in SanTexts
          /\ llm_text = <<>>
          /\ san_pc = "sanitize"
       \/ /\ san_call = "LLMSanitizer.sanitize"
          /\ backend_type = ""
          /\ has_callable = TRUE
          /\ san_text = <<>>
          /\ llm_text \in SanTexts
          /\ san_pc = "chunk_text"

\* LLMSanitizer(ollama)._chunk_text(text) is called
ChunkInit ==
    /\ OrchIdle
    /\ ParseIdle
    /\ GroqIdle
    /\ LayersIdle
    /\ san_call = "_chunk_text"
    /\ backend_type = ""
    /\ has_callable = TRUE
    /\ san_text = <<>>
    /\ llm_text \in ChunkTexts \cup SanTexts
    /\ san_pc = "chunk_text"

\* the skip path of SanitizationPipeline.sanitize
SkipPath ==
    /\ san_pc = "sanitize"
    /\ Skip(backend_type)
    /\ san_result' = SanitizationResult(san_text, FALSE, <<>>, <<>>, TRUE, None, san_text)
    /\ san_pc' = "done"
    /\ UNCHANGED <<san_call, backend_type, has_callable, san_text, regex_out, llm_text,
                   chunk_start, chunks, chunk_i, elapsed_total, sanitized_chunks,
                   all_findings, timeout_flags, llm_out>>
    /\ UNCHANGED <<orch_vars, parse_vars, groq_vars>>

\* Layer 1, and the return when there is no Layer 2
Layer1 ==
    /\ san_pc = "sanitize"
    /\ ~Skip(backend_type)
    /\ LET out == RegexSanitizer_sanitize(KnownNames, san_text)
       IN  /\ regex_out' = out
           /\ IF has_callable
                  THEN /\ llm_text' = out.text
                       /\ san_pc' = "chunk_text"
                       /\ UNCHANGED san_result
                  ELSE /\ san_result' = SanitizationResult(out.text, Len(out.audit) > 0,
                                                           out.audit, <<>>, FALSE, None,
                                                           out.text)
                       /\ san_pc' = "done"
                       /\ UNCHANGED llm_text
    /\ UNCHANGED <<san_call, backend_type, has_callable, san_text,
                   chunk_start, chunks, chunk_i, elapsed_total, sanitized_chunks,
                   all_findings, timeout_flags, llm_out>>
    /\ UNCHANGED <<orch_vars, parse_vars, groq_vars>>

\* where the caller of _chunk_text goes on
AfterChunkText(cs) ==
    IF san_call = "_chunk_text" THEN "done"
    ELSE IF Len(cs) = 1 THEN "single" ELSE "loop"

\* _chunk_text: the text fits one chunk
ChunkTextWhole ==
    /\ san_pc = "chunk_text"
    /\ TextLen(llm_text) <= MAX_CHUNK_SIZE
    /\ chunks' = <<Chunk(0, llm_text)>>
    /\ san_pc' = AfterChunkText(chunks')
    /\ UNCHANGED <<san_call, backend_type, has_callable, san_text, regex_out, llm_text,
                   chunk_start, chunk_i, elapsed_total, sanitized_chunks,
                   all_findings, timeout_flags, llm_out, san_result>>
    /\ UNCHANGED <<orch_vars, parse_vars, groq_vars>>

\* _chunk_text: one iteration of the while loop
ChunkTextLoop ==
    /\ san_pc = "chunk_text"
    /\ TextLen(llm_text) > MAX_CHUNK_SIZE
    /\ chunk_start < TextLen(llm_text)
    /\ \E end \in {ChunkEndFrom(llm_text, chunk_start)} :
          /\ chunks' = Append(chunks, Chunk(chunk_start, Slice(llm_text, chunk_start, end)))
          /\ chunk_start' = NextStart(llm_text, end)
    /\ UNCHANGED <<san_call, backend_type, has_callable, san_pc, san_text, regex_out,
                   llm_text, chunk_i, elapsed_total, sanitized_chunks,
                   all_findings, timeout_flags, llm_out, san_result>>
    /\ UNCHANGED <<orch_vars, parse_vars, groq_vars>>

\* _chunk_text: the while loop is left and chunks is returned
ChunkTextReturn ==
    /\ san_pc = "chunk_text"
    /\ TextLen(llm_text) > MAX_CHUNK_SIZE
    /\ chunk_start >= TextLen(llm_text)
    /\ san_pc' = AfterChunkText(chunks)
    /\ UNCHANGED <<san_call, backend_type, has_callable, san_text, regex_out, llm_text,
                   chunk_start, chunks, chunk_i, elapsed_total, sanitized_chunks,
                   all_findings, timeout_flags, llm_out, san_result>>
    /\ UNCHANGED <<orch_vars, parse_vars, groq_vars>>

\* LLMSanitizer.sanitize: the single chunk, handed over as the whole text
SanitizeSingle ==
    /\ san_pc = "single"
    /\ \E kind \in OllamaKinds, seconds \in CallSeconds :
          LET reply == Ollama(kind, llm_text)
              out == _sanitize_chunk(llm_text, reply)
          IN  /\ elapsed_total' = elapsed_total + seconds
              /\ IF reply.kind = "raise"
                     THEN /\ llm_out' = Raised(reply.msg)
                          /\ UNCHANGED timeout_flags
                     ELSE /\ llm_out' = Ok([text |-> out.sanitized,
                                            findings |-> out.findings])
                          /\ timeout_flags' = Append(timeout_flags, out.timeout)
    /\ san_pc' = "llm_done"
    /\ UNCHANGED <<san_call, backend_type, has_callable, san_text, regex_out, llm_text,
                   chunk_start, chunks, chunk_i, sanitized_chunks, all_findings,
                   san_result>>
    /\ UNCHANGED <<orch_vars, parse_vars, groq_vars>>

\* LLMSanitizer.sanitize: the time check at the top of the for loop fails
PipelineTimeout ==
    /\ san_pc = "loop"
    /\ chunk_i < Len(chunks)
    /\ elapsed_total > MAX_TOTAL_TIME
    /\ san_pc' = "reassemble"
    /\ UNCHANGED <<san_call, backend_type, has_callable, san_text, regex_out, llm_text,
                   chunk_start, chunks, chunk_i, elapsed_total, sanitized_chunks,
                   all_findings, timeout_flags, llm_out, san_result>>
    /\ UNCHANGED <<orch_vars, parse_vars, groq_vars>>

\* the for loop that goes on after the time limit
SanitizeChunk_NoTimeLimit ==
    /\ san_pc = "loop"
    /\ chunk_i < Len(chunks)
    /\ \E kind \in OllamaKinds, seconds \in CallSeconds :
          LET chunk == chunks[chunk_i + 1].text
              reply == Ollama(kind, chunk)
              out == _sanitize_chunk(chunk, reply)
          IN  /\ elapsed_total' = elapsed_total + seconds
              /\ IF reply.kind = "raise"
                     THEN /\ llm_out' = Raised(reply.msg)
                          /\ san_pc' = "llm_done"
                          /\ UNCHANGED <<chunk_i, sanitized_chunks, all_findings,
                                         timeout_flags>>
                     ELSE /\ sanitized_chunks' = Append(sanitized_chunks, out.sanitized)
                          /\ all_findings' = all_findings \o out.findings
                          /\ timeout_flags' = Append(timeout_flags, out.timeout)
                          /\ chunk_i' = chunk_i + 1
                          /\ UNCHANGED <<llm_out, san_pc>>
    /\ UNCHANGED <<san_call, backend_type, has_callable, san_text, regex_out, llm_text,
                   chunk_start, chunks, san_result>>
    /\ UNCHANGED <<orch_vars, parse_vars, groq_vars>>

\* LLMSanitizer.sanitize: one iteration of the for loop within the time limit
SanitizeChunk ==
    /\ elapsed_total <= MAX_TOTAL_TIME
    /\ SanitizeChunk_NoTimeLimit

\* LLMSanitizer.sanitize: after the loop, reassembly and return
Reassemble ==
    /\ \/ san_pc = "reassemble"
       \/ san_pc = "loop" /\ chunk_i = Len(chunks)
    /\ sanitized_chunks # <<>>
    /\ llm_out' = Ok([text |-> Reassembled(sanitized_chunks),
                      findings |-> Unique(all_findings, {})])
    /\ san_pc' = "llm_done"
    /\ UNCHANGED <<san_call, backend_type, has_callable, san_text, regex_out, llm_text,
                   chunk_start, chunks, chunk_i, elapsed_total, sanitized_chunks,
                   all_findings, timeout_flags, san_result>>
    /\ UNCHANGED <<orch_vars, parse_vars, groq_vars>>

\* the result that reports the text after Layer 2 as the Layer 1 text
PipelineResult_Layer2Text(regex, llm) ==
    IF llm.raised
        THEN SanitizationResult(regex.text, Len(regex.audit) > 0, regex.audit, <<>>,
                                FALSE, Some(llm.msg), regex.text)
        ELSE SanitizationResult(llm.out.text,
                                Len(regex.audit) > 0 \/ Len(llm.out.findings) > 0,
                                regex.audit, llm.out.findings, FALSE, None, llm.out.text)

\* the SanitizationResult after Layer 2 raised (except branch) or returned
PipelineResult(regex, llm) ==
    IF llm.raised
        THEN SanitizationResult(regex.text, Len(regex.audit) > 0, regex.audit, <<>>,
                                FALSE, Some(llm.msg), regex.text)
        ELSE SanitizationResult(llm.out.text,
                                Len(regex.audit) > 0 \/ Len(llm.out.findings) > 0,
                                regex.audit, llm.out.findings, FALSE, None, regex.text)

\* SanitizationPipeline.sanitize: Layer 2 returned or raised
PipelineReturn ==
    /\ san_pc = "llm_done"
    /\ san_call = "SanitizationPipeline.sanitize"
    /\ san_result' = PipelineResult(regex_out, llm_out)
    /\ san_pc' = "done"
    /\ UNCHANGED <<san_call, backend_type, has_callable, san_text, regex_out, llm_text,
                   chunk_start, chunks, chunk_i, elapsed_total, sanitized_chunks,
                   all_findings, timeout_flags, llm_out>>
    /\ UNCHANGED <<orch_vars, parse_vars, groq_vars>>

SanNext ==
    \/ SkipPath
    \/ Layer1
    \/ ChunkTextWhole
    \/ ChunkTextLoop
    \/ ChunkTextReturn
    \/ SanitizeSingle
    \/ PipelineTimeout
    \/ SanitizeChunk
    \/ Reassemble
    \/ PipelineReturn

SanitizeSpec == SanInit /\ [][SanNext]_vars

ChunkNext ==
    \/ ChunkTextWhole
    \/ ChunkTextLoop
    \/ ChunkTextReturn

\* _chunk_text is straight-line code in one thread: it takes its next step
ChunkSpec == ChunkInit /\ [][ChunkNext]_vars /\ WF_vars(ChunkNext)

-----------------------------------------------------------------------------
(* _chunk_text.                                                             *)

\* _chunk_text has returned chunks
ChunksReturned == san_pc \notin {"idle", "sanitize", "chunk_text"} /\ chunks # <<>>

\* The chunks cover the text in order: the first starts at 0, the last ends at
\* len(text), none is longer than MAX_CHUNK_SIZE, each holds the characters of
\* the text from its start on, and each next one starts OVERLAP characters
\* before the end of the one before it.
ChunksCover ==
    /\ chunks[1].start = 0
    /\ ChunkEnd(chunks[Len(chunks)]) = TextLen(llm_text)
    /\ \A i \in 1..Len(chunks) :
          /\ TextLen(chunks[i].text) <= MAX_CHUNK_SIZE
          /\ chunks[i].text = Slice(llm_text, chunks[i].start, ChunkEnd(chunks[i]))
    /\ \A i \in 1..(Len(chunks) - 1) :
          chunks[i + 1].start = ChunkEnd(chunks[i]) - OVERLAP

\* C29: _chunk_text terminates for every input text and returns chunks that
\* together cover the whole text in order: the first chunk starts at 0, the
\* last ends at len(text), each chunk is at most MAX_CHUNK_SIZE long, each next
\* chunk starts exactly OVERLAP characters before the previous chunk's end, and
\* start strictly increases on every iteration of the while loop.
C29_ChunksCoverAndTerminate ==
    /\ [](ChunksReturned => ChunksCover)
    /\ [][(TextLen(llm_text) > MAX_CHUNK_SIZE /\ chunks' # chunks) =>
              chunk_start' > chunk_start]_vars
    /\ <>(san_pc = "done")

\* C29 witness: a text was cut into three chunks or more, one of them at a
\* line break short of MAX_CHUNK_SIZE.
C29_Witness ==
    /\ san_call = "_chunk_text"
    /\ san_pc = "done"
    /\ Len(chunks) >= 3
    /\ \E i \in 1..(Len(chunks) - 1) : TextLen(chunks[i].text) < MAX_CHUNK_SIZE

-----------------------------------------------------------------------------
(* LLMSanitizer.sanitize.                                                   *)

\* LLMSanitizer.sanitize has returned a text
LlmReturned == san_pc \in {"llm_done", "done"} /\ llm_out # Pending /\ ~llm_out.raised

\* every _sanitize_chunk call of the run failed
EveryCallFailed == \A i \in 1..Len(timeout_flags) : timeout_flags[i]

\* the number of chunks that were handed to _sanitize_chunk
Processed == Len(timeout_flags)

\* the text up to the end of the last chunk that was processed
ProcessedInput == TextTo(llm_text, ChunkEnd(chunks[Processed]))

\* C30 as stated: LLMSanitizer.sanitize never drops input content. Whether
\* chunks succeed or fail and whether or not the time limit is exceeded,
\* every chunk of the input is part of the returned text, so when every chunk
\* fails the returned text equals the input text.
C30_Original ==
    LlmReturned =>
        /\ Processed = Len(chunks)
        /\ EveryCallFailed => llm_out.out.text = llm_text

\* C30 as the code has it: the returned text is reassembled from every chunk
\* that was processed, a failed chunk contributing its original text. While
\* the time limit is not exceeded every chunk is processed, so when every
\* chunk fails within the limit the returned text equals the input text. Once
\* the limit is exceeded before a chunk, that chunk and the chunks after it
\* are left out: when every processed chunk failed, the returned text is the
\* input text up to the end of the last processed chunk.
C30_PartialOnTimeout ==
    LlmReturned =>
        /\ Processed >= 1
        /\ Processed < Len(chunks) => elapsed_total > MAX_TOTAL_TIME
        /\ EveryCallFailed => llm_out.out.text = ProcessedInput
        /\ (EveryCallFailed /\ Processed = Len(chunks)) => llm_out.out.text = llm_text

\* C30 witness: of three chunks or more the first two failed, each after a
\* timeout, the time limit was exceeded, and the text was returned without the
\* chunks that were not processed.
C30_Witness ==
    /\ LlmReturned
    /\ Len(chunks) >= 3
    /\ Processed = 2
    /\ EveryCallFailed
    /\ llm_out.out.text # llm_text
    /\ llm_out.out.text = ProcessedInput

-----------------------------------------------------------------------------
(* SanitizationPipeline.sanitize.                                           *)

\* SanitizationPipeline.sanitize has returned
PipelineDone == san_call = "SanitizationPipeline.sanitize" /\ san_pc = "done"

\* neither layer has run
NoLayerRan ==
    /\ regex_out = Pending
    /\ chunks = <<>>
    /\ timeout_flags = <<>>
    /\ llm_out = Pending

\* C21: the backend alone decides what runs. For backend "ollama" sanitize
\* runs neither layer and returns the input text unchanged with skipped=True;
\* for every other backend Layer 1 runs, and regex_sanitized_text is the
\* Layer 1 output for the whole text whether Layer 2 is absent, succeeds,
\* returns nothing or raises.
C21_LayersByBackend ==
    PipelineDone =>
        IF backend_type = "ollama"
            THEN /\ NoLayerRan
                 /\ san_result.skipped
                 /\ san_result.sanitized_text = san_text
            ELSE /\ ~san_result.skipped
                 /\ regex_out = RegexSanitizer_sanitize(KnownNames, san_text)
                 /\ san_result.regex_sanitized_text = regex_out.text

\* C21 witness: for backend "groq" Layer 1 redacted something, Layer 2 then
\* changed the text again, and the result carries both texts.
C21_Witness ==
    /\ PipelineDone
    /\ backend_type = "groq"
    /\ has_callable
    /\ san_result.error = None
    /\ regex_out.text # san_text
    /\ san_result.sanitized_text # san_result.regex_sanitized_text

-----------------------------------------------------------------------------
(* src/rag_engine.py: RAGLogAnalyzer._call_groq_api.                        *)

\* range(3)
MaxAttempts == 3

\* time.sleep(5)
RetrySleep == 5

\* What requests.post did: it raised, or it returned a response
PostRaised(error) == [kind |-> "raise", error |-> error]
Response(status_code, body) == [kind |-> "response", status_code |-> status_code, body |-> body]

\* Bodies of a response: no JSON at all, JSON without 'choices', with an empty
\* 'choices' list, with a null 'content', and with a content string
BodyNotJson == [json |-> FALSE]
BodyNoChoices == [json |-> TRUE, choices |-> "absent"]
BodyEmptyChoices == [json |-> TRUE, choices |-> "empty"]
BodyNullContent == [json |-> TRUE, choices |-> "list", content |-> None]
BodyContent(c) == [json |-> TRUE, choices |-> "list", content |-> Some(c)]

\* response.json() and the chain of get calls and strip() after it
Content(body) ==
    IF ~body.json THEN Raised("JSONDecodeError")
    ELSE IF body.choices = "absent" THEN Ok("")
    ELSE IF body.choices = "empty" THEN Raised("IndexError")
    ELSE IF body.content = None THEN Raised("AttributeError")
    ELSE Ok(Strip(body.content.msg))

GroqBodies ==
    {BodyNotJson, BodyNoChoices, BodyEmptyChoices, BodyNullContent,
     BodyContent(" TRIGGER: disk full "), BodyContent("")}

ErrorStatuses == {400, 401, 500, 503}

PostOutcomes ==
    {PostRaised("Timeout"), PostRaised("ConnectionError")}
        \cup {Response(200, b) : b \in GroqBodies}
        \cup {Response(s, BodyNotJson) : s \in ErrorStatuses \cup {429}}

\* seconds a requests.post with timeout=30 takes
PostSeconds == {1, 30}

\* the retry that also follows a 503
ShouldRetry_ServerBusy(status_code, attempt) ==
    status_code \in {429, 503} /\ attempt < MaxAttempts - 1

\* the branch that sleeps and continues
ShouldRetry(status_code, attempt) == status_code = 429 /\ attempt < MaxAttempts - 1

\* _call_groq_api is entered
GroqInit ==
    /\ OrchIdle
    /\ ParseIdle
    /\ SanIdle
    /\ groq_pc = "post"
    /\ groq_attempt = 0
    /\ groq_log = <<>>
    /\ groq_clock = 0
    /\ groq_result = Pending

\* requests.post is called and does outcome after seconds
Posted(outcome, seconds) ==
    /\ groq_pc = "post"
    /\ groq_attempt < MaxAttempts
    /\ groq_log' = Append(groq_log, [outcome |-> outcome, seconds |-> seconds])
    /\ groq_clock' = groq_clock + seconds
    /\ UNCHANGED <<groq_attempt, orch_vars, parse_vars, san_vars>>

\* requests.post raises: except Exception returns None
PostRaises ==
    \E outcome \in PostOutcomes, seconds \in PostSeconds :
        /\ outcome.kind = "raise"
        /\ Posted(outcome, seconds)
        /\ groq_result' = None
        /\ groq_pc' = "returned"

\* status 429 with attempts left: sleep, then the next attempt
RateLimitedRetry ==
    \E outcome \in PostOutcomes, seconds \in PostSeconds :
        /\ outcome.kind = "response"
        /\ ShouldRetry(outcome.status_code, groq_attempt)
        /\ Posted(outcome, seconds)
        /\ groq_pc' = "sleep"
        /\ UNCHANGED groq_result

\* status 429 on the last attempt: return None
RateLimitedLast ==
    \E outcome \in PostOutcomes, seconds \in PostSeconds :
        /\ outcome.kind = "response"
        /\ outcome.status_code = 429
        /\ ~ShouldRetry(outcome.status_code, groq_attempt)
        /\ Posted(outcome, seconds)
        /\ groq_result' = None
        /\ groq_pc' = "returned"

\* any other status than 200: return None
ErrorStatus ==
    \E outcome \in PostOutcomes, seconds \in PostSeconds :
        /\ outcome.kind = "response"
        /\ outcome.status_code \notin {200, 429}
        /\ ~ShouldRetry(outcome.status_code, groq_attempt)
        /\ Posted(outcome, seconds)
        /\ groq_result' = None
        /\ groq_pc' = "returned"

\* status 200: return the content, or None when reading it raises
StatusOk ==
    \E outcome \in PostOutcomes, seconds \in PostSeconds :
        /\ outcome.kind = "response"
        /\ outcome.status_code = 200
        /\ Posted(outcome, seconds)
        /\ groq_result' = IF Content(outcome.body).raised THEN None
                          ELSE Some(Content(outcome.body).out)
        /\ groq_pc' = "returned"

\* time.sleep(5) and continue
SleepAndRetry ==
    /\ groq_pc = "sleep"
    /\ groq_clock' = groq_clock + RetrySleep
    /\ groq_attempt' = groq_attempt + 1
    /\ groq_pc' = "post"
    /\ UNCHANGED <<groq_log, groq_result, orch_vars, parse_vars, san_vars>>

\* The return None after the for loop is never reached: the third attempt
\* returns on every path.
GroqNext ==
    \/ PostRaises
    \/ RateLimitedRetry
    \/ RateLimitedLast
    \/ ErrorStatus
    \/ StatusOk
    \/ SleepAndRetry

GroqSpec == GroqInit /\ [][GroqNext]_vars

\* requests.post returns or raises within its timeout and time.sleep returns:
\* the one thread of the call takes its next step
GroqFairSpec == GroqSpec /\ WF_vars(GroqNext)

\* the sum of the seconds of the attempts in log
RECURSIVE SecondsOf(_)
SecondsOf(log) == IF log = <<>> THEN 0 ELSE Head(log).seconds + SecondsOf(Tail(log))

\* attempt i of the call was answered with status 429
RateLimited(i) ==
    groq_log[i].outcome.kind = "response" /\ groq_log[i].outcome.status_code = 429

\* what the last attempt makes the call return
ReturnFor(outcome) ==
    IF outcome.kind = "raise" THEN None
    ELSE IF outcome.status_code # 200 THEN None
    ELSE IF Content(outcome.body).raised THEN None
    ELSE Some(Content(outcome.body).out)

\* C28: one _call_groq_api call makes at most 3 HTTP attempts and always
\* terminates. It tries again only after a 429 on the first or second attempt,
\* after sleeping 5 s; any other status than 200, and any exception, returns
\* None with no retry; a 200 returns the content at once (None when reading the
\* body raises); a 429 on the third attempt returns None.
C28_BoundedRetries ==
    /\ [](Len(groq_log) <= MaxAttempts)
    /\ [](groq_pc = "sleep" => RateLimited(Len(groq_log)) /\ Len(groq_log) < MaxAttempts)
    /\ [](groq_pc = "returned" =>
            LET n == Len(groq_log)
            IN  /\ n >= 1
                /\ \A i \in 1..(n - 1) : RateLimited(i)
                /\ RateLimited(n) => n = MaxAttempts
                /\ groq_result = ReturnFor(groq_log[n].outcome)
                /\ groq_clock = SecondsOf(groq_log) + RetrySleep * (n - 1))
    /\ <>(groq_pc = "returned")

\* C28 witness: two 429 answers, two sleeps, and a third attempt that returned
\* the stripped content.
C28_Witness ==
    /\ groq_pc = "returned"
    /\ Len(groq_log) = 3
    /\ RateLimited(1) /\ RateLimited(2)
    /\ groq_result = Some("TRIGGER: disk full")

====
